---- MODULE Spec2Model ----
(***************************************************************************)
(* The multi-agent hook team of "Claude Files/hooks/agents": the per-agent *)
(* mailboxes, the dispatch loop of every agent runtime, the decision       *)
(* policy of the file-operation analyses and the project manager's         *)
(* file-change routing.                                                    *)
(*                                                                         *)
(* agents/base_agent.py (BaseAgent: send_message, call_meeting,            *)
(* broadcast_to_team) and communication/agent_communication.py             *)
(* (AgentMessageProcessor.process_pending_messages) are imported by every  *)
(* agent file but are not part of the source tree; they are modelled from  *)
(* the Message Store section of the specification (enqueue = append,       *)
(* drain = read, then clear).                                              *)
(***************************************************************************)
EXTENDS Integers, Sequences, FiniteSets, TLC

VARIABLES
  mailbox,      \* [identity -> sequence of envelopes]: the file-backed stores
  clock,        \* created_at of the next envelope
  unread,       \* history: per identity, the envelopes enqueued since its last drain
  agent_state,  \* the persisted self.state entries the handlers write
  last,         \* what the last invocation (or mailbox operation) did and returned
  buf,          \* SpecConc: what a drain in progress has read and not yet cleared
  returned,     \* SpecConc history: how often each envelope was returned by a drain
  route,        \* SpecRoute: the last routing query and its answers
  steps,        \* Spec: the number of hook events and peer writes still to come
  hook,         \* SpecHook: the Heimdall hook process that is running, if any
  activities    \* history: every activity project-manager has logged, in logging order

vars == <<mailbox, clock, unread, agent_state, last, buf, returned, route, steps, hook,
          activities>>

(***************************************************************************)
(* Strings.  A Python str is a sequence of one-character strings, so that  *)
(* `in`, endswith and lower() are computed, not assumed.                   *)
(***************************************************************************)

\* str.lower(): the ASCII capitals become small letters, every other character
\* is kept
lower(s) ==
  LET UpperCase == <<"A","B","C","D","E","F","G","H","I","J","K","L","M","N","O","P","Q","R","S","T","U","V","W","X","Y","Z">>
      LowerCase == <<"a","b","c","d","e","f","g","h","i","j","k","l","m","n","o","p","q","r","s","t","u","v","w","x","y","z">>
      lower_char(c) ==
        IF \E i \in 1..Len(UpperCase) : UpperCase[i] = c
        THEN LowerCase[CHOOSE i \in 1..Len(UpperCase) : UpperCase[i] = c]
        ELSE c
  IN  [i \in 1..Len(s) |-> lower_char(s[i])]

\* Python `sub in s` on strings
In(sub, s) ==
  \E i \in 0..(Len(s) - Len(sub)) : \A j \in 1..Len(sub) : s[i + j] = sub[j]

\* s.endswith(suffix)
endswith(s, suffix) ==
  /\ Len(suffix) <= Len(s)
  /\ \A j \in 1..Len(suffix) : s[Len(s) - Len(suffix) + j] = suffix[j]

\* s.startswith(prefix)
startswith(s, prefix) ==
  /\ Len(prefix) <= Len(s)
  /\ \A j \in 1..Len(prefix) : s[j] = prefix[j]

\* any(p in s for p in patterns)
any_in(patterns, s) == \E i \in 1..Len(patterns) : In(patterns[i], s)

\* any(s.endswith(p) for p in patterns)
any_endswith(patterns, s) == \E i \in 1..Len(patterns) : endswith(s, patterns[i])

\* the elements of a sequence
Range(s) == {s[i] : i \in 1..Len(s)}

\* Path(file_path).name for a relative POSIX path: what follows the last "/"
path_name(s) ==
  LET cuts == {i \in 1..Len(s) : s[i] = "/"}
      from == IF cuts = {} THEN 1 ELSE 1 + CHOOSE i \in cuts : \A k \in cuts : k <= i
  IN  SubSeq(s, from, Len(s))

(***************************************************************************)
(* The identities.                                                         *)
(***************************************************************************)
PM == "project-manager"
FE == "frontend-developer"
BE == "backend-developer"
TE == "tester"
UI == "ui-developer"
DE == "data-engineer"
DBG == "debugger"
SEC == "security-engineer"
OPS == "devops-engineer"

(***************************************************************************)
(* Coordinator routing (project-manager.py).                               *)
(***************************************************************************)

\* the pattern lists of determine_relevant_agents, by the name of the list
routing_patterns ==
  [
    frontend_patterns |->
      << <<".","j","s">>, <<".","j","s","x">>, <<".","t","s">>, <<".","t","s","x">>, <<".","v","u","e">>, <<".","s","v","e","l","t","e">> >>,
    ui_patterns |->
      << <<".","c","s","s">>, <<".","s","c","s","s">>, <<".","s","a","s","s">>, <<".","l","e","s","s">>, <<".","s","t","y","l","e","d">> >>,
    backend_patterns |->
      << <<".","p","y">>, <<".","j","a","v","a">>, <<".","g","o">>, <<".","r","s">>, <<".","c","s">> >>,
    test_patterns |->
      << <<"t","e","s","t">>, <<"s","p","e","c">>, <<"_","_","t","e","s","t","s","_","_">> >>,
    devops_patterns |->
      << <<"d","o","c","k","e","r","f","i","l","e">>, <<"d","o","c","k","e","r","-","c","o","m","p","o","s","e">>, <<".","y","m","l">>, <<".","y","a","m","l">>, <<"d","e","p","l","o","y">> >>,
    database_patterns |->
      << <<"m","i","g","r","a","t","i","o","n">>, <<"s","c","h","e","m","a">>, <<".","s","q","l">>, <<"d","a","t","a","b","a","s","e">> >>,
    security_patterns |->
      << <<"a","u","t","h">>, <<"s","e","c","u","r","i","t","y">>, <<"p","e","r","m","i","s","s","i","o","n">>, <<".","e","n","v">> >> ]

\* determine_relevant_agents with the test of one agent repeated per pattern
determine_relevant_agents_dup(file_path) ==
  LET fp == lower(file_path)
      r1 == IF any_in(routing_patterns.frontend_patterns, fp) THEN <<FE>> ELSE <<>>
      r2 == IF any_in(routing_patterns.ui_patterns, fp) THEN Append(r1, UI) ELSE r1
      r3 == IF any_in(routing_patterns.backend_patterns, fp) THEN Append(r2, BE) ELSE r2
      r4 == IF In(<<"a","p","i">>, fp) THEN Append(r3, BE) ELSE r3
      r5 == IF any_in(routing_patterns.test_patterns, fp) THEN Append(r4, TE) ELSE r4
      r6 == IF any_in(routing_patterns.devops_patterns, fp) THEN Append(r5, OPS) ELSE r5
      r7 == IF any_in(routing_patterns.database_patterns, fp) THEN Append(r6, DE) ELSE r6
  IN  IF any_in(routing_patterns.security_patterns, fp) THEN Append(r7, SEC) ELSE r7

\* determine_relevant_agents: one conditional append per agent, in source order
determine_relevant_agents(file_path) ==
  LET fp == lower(file_path)
      r1 == IF any_in(routing_patterns.frontend_patterns, fp) THEN <<FE>> ELSE <<>>
      r2 == IF any_in(routing_patterns.ui_patterns, fp) THEN Append(r1, UI) ELSE r1
      r3 == IF any_in(routing_patterns.backend_patterns, fp) \/ In(<<"a","p","i">>, fp)
            THEN Append(r2, BE) ELSE r2
      r4 == IF any_in(routing_patterns.test_patterns, fp) THEN Append(r3, TE) ELSE r3
      r5 == IF any_in(routing_patterns.devops_patterns, fp) THEN Append(r4, OPS) ELSE r4
      r6 == IF any_in(routing_patterns.database_patterns, fp) THEN Append(r5, DE) ELSE r5
  IN  IF any_in(routing_patterns.security_patterns, fp) THEN Append(r6, SEC) ELSE r6

significant_files ==
  << <<"p","a","c","k","a","g","e",".","j","s","o","n">>,
     <<"r","e","q","u","i","r","e","m","e","n","t","s",".","t","x","t">>,
     <<"d","o","c","k","e","r","f","i","l","e">>,
     <<"d","o","c","k","e","r","-","c","o","m","p","o","s","e">>,
     <<"c","o","n","f","i","g">>,
     <<"s","e","t","t","i","n","g","s">>,
     <<"e","n","v">>,
     <<"s","c","h","e","m","a">>,
     <<"m","i","g","r","a","t","i","o","n">> >>

significant_dirs ==
  << <<"s","r","c","/">>,
     <<"l","i","b","/">>,
     <<"a","p","i","/">>,
     <<"c","o","m","p","o","n","e","n","t","s","/">> >>

\* is_significant_change without the test on the tool name
is_significant_change_any_tool(file_path, tool_name) ==
  LET file_path_lower == lower(file_path)
  IN  \/ any_in(significant_files, file_path_lower)
      \/ any_in(significant_dirs, file_path_lower)

\* is_significant_change
is_significant_change(file_path, tool_name) ==
  LET file_path_lower == lower(file_path)
  IN  \/ any_in(significant_files, file_path_lower)
      \/ tool_name = "Write" /\ any_in(significant_dirs, file_path_lower)

\* SpecRoute's variable outside SpecRoute
NoRoute == [phase |-> "idle", file_path |-> <<>>, tool_name |-> "",
            relevant |-> <<>>, significant |-> FALSE]

(***************************************************************************)
(* Message Store (specification section 4.1) and envelopes (section 3).    *)
(***************************************************************************)
MaxClock == 3

\* MessageEnvelope {from, to, type, data, priority, created_at}
Envelope(from, to, type, data, priority, created_at) ==
  [from |-> from, to |-> to, type |-> type, data |-> data,
   priority |-> priority, created_at |-> created_at]

\* enqueue that lets a high-priority envelope overtake the normal ones
enqueue_by_priority(queue, envelope) ==
  IF envelope.priority = "high"
  THEN LET highs == SelectSeq(queue, LAMBDA e : e.priority = "high")
           rest  == SelectSeq(queue, LAMBDA e : e.priority # "high")
       IN  highs \o <<envelope>> \o rest
  ELSE Append(queue, envelope)

\* enqueue(recipient, envelope): append to the recipient's backing store
enqueue(queue, envelope) == Append(queue, envelope)

\* drain(recipient): everything pending, in store order, and the cleared store
drain(queue) == [messages |-> queue, store |-> <<>>]

\* dict.get(key, default)
get(d, key, default) == IF key \in DOMAIN d THEN d[key] ELSE default

(***************************************************************************)
(* SpecMail: senders enqueue to mailboxes and recipients drain them, one   *)
(* operation at a time.                                                    *)
(***************************************************************************)
MailSenders == {PM, FE}
MailRecipients == {TE, BE}
MailTypes == {"file_change_notification", "status_update"}
Priorities == {"normal", "high"}

EmptyBoxes(S) == [a \in S |-> <<>>]

MailInit ==
  /\ mailbox = EmptyBoxes(MailRecipients)
  /\ unread = EmptyBoxes(MailRecipients)
  /\ clock = 0
  /\ last = [op |-> "none"]
  /\ agent_state = <<>> /\ buf = <<>> /\ returned = <<>> /\ route = NoRoute
  /\ steps = 0
  /\ hook = <<>> /\ activities = <<>>

\* send_message(to, type, data, priority) of a sender
MailSend(from, to, type, priority) ==
  /\ clock < MaxClock
  /\ LET e == Envelope(from, to, type, [agent |-> from], priority, clock)
     IN  /\ mailbox' = [mailbox EXCEPT ![to] = enqueue(@, e)]
         /\ unread' = [unread EXCEPT ![to] = Append(@, e)]
         /\ last' = [op |-> "send", agent |-> to]
  /\ clock' = clock + 1
  /\ UNCHANGED <<agent_state, buf, returned, route, steps, hook, activities>>

\* process_pending_messages() of a recipient
MailDrain(a) ==
  /\ LET d == drain(mailbox[a])
     IN  /\ mailbox' = [mailbox EXCEPT ![a] = d.store]
         /\ last' = [op |-> "drain", agent |-> a, messages |-> d.messages,
                     expected |-> unread[a]]
  /\ unread' = [unread EXCEPT ![a] = <<>>]
  /\ UNCHANGED <<clock, agent_state, buf, returned, route, steps, hook, activities>>

MailNext ==
  \/ \E from \in MailSenders, to \in MailRecipients, type \in MailTypes, p \in Priorities :
       MailSend(from, to, type, p)
  \/ \E a \in MailRecipients : MailDrain(a)

SpecMail == MailInit /\ [][MailNext]_vars

\* C1: a drain of A returns exactly the envelopes enqueued to A since A's previous
\* drain, in enqueue order whatever their priorities; so a drain right after a
\* drain returns the empty sequence.
C1_DrainReturnsEnqueueOrder ==
  last.op = "drain" => last.messages = last.expected

\* C1 witness: a drain returned a normal envelope of one sender followed by a
\* high-priority envelope of another sender
C1_Witness ==
  /\ last.op = "drain"
  /\ Len(last.messages) >= 2
  /\ last.messages[1].priority = "normal" /\ last.messages[2].priority = "high"
  /\ last.messages[1].from # last.messages[2].from

(***************************************************************************)
(* SpecConc: the same store when the host fires hooks concurrently.  The   *)
(* store has no lock: a drain reads the backing store and clears it in a   *)
(* second step, and senders run in between.                                *)
(***************************************************************************)
ConcRecipient == TE

ConcInit ==
  /\ mailbox = EmptyBoxes({ConcRecipient})
  /\ unread = EmptyBoxes({ConcRecipient})
  /\ clock = 0
  /\ buf = [reading |-> FALSE, messages |-> <<>>]
  /\ returned = [t \in 0..(MaxClock - 1) |-> 0]
  /\ last = [op |-> "none"]
  /\ agent_state = <<>> /\ route = NoRoute /\ steps = 0
  /\ hook = <<>> /\ activities = <<>>

\* send_message of a sender process
ConcSend(from, type, priority) ==
  /\ clock < MaxClock
  /\ mailbox' = [mailbox EXCEPT ![ConcRecipient] =
       enqueue(@, Envelope(from, ConcRecipient, type, [agent |-> from], priority, clock))]
  /\ clock' = clock + 1
  /\ last' = [op |-> "send", agent |-> ConcRecipient]
  /\ UNCHANGED <<unread, agent_state, buf, returned, route, steps, hook, activities>>

\* drain, first step: read all pending envelopes
ConcDrainRead ==
  /\ ~buf.reading
  /\ buf' = [reading |-> TRUE, messages |-> drain(mailbox[ConcRecipient]).messages]
  /\ last' = [op |-> "read", agent |-> ConcRecipient]
  /\ UNCHANGED <<mailbox, clock, unread, agent_state, returned, route, steps, hook, activities>>

\* drain, second step: clear the backing store and return what was read
ConcDrainClear ==
  /\ buf.reading
  /\ mailbox' = [mailbox EXCEPT ![ConcRecipient] = drain(@).store]
  /\ returned' = [t \in DOMAIN returned |->
       returned[t] + Cardinality({i \in 1..Len(buf.messages) : buf.messages[i].created_at = t})]
  /\ buf' = [reading |-> FALSE, messages |-> <<>>]
  /\ last' = [op |-> "drain", agent |-> ConcRecipient, messages |-> buf.messages]
  /\ UNCHANGED <<clock, unread, agent_state, route, steps, hook, activities>>

ConcNext ==
  \/ \E from \in MailSenders, type \in MailTypes, p \in Priorities : ConcSend(from, type, p)
  \/ ConcDrainRead
  \/ ConcDrainClear

SpecConc == ConcInit /\ [][ConcNext]_vars

Pending(t) ==
  \/ \E i \in 1..Len(mailbox[ConcRecipient]) : mailbox[ConcRecipient][i].created_at = t
  \/ \E i \in 1..Len(buf.messages) : buf.messages[i].created_at = t

\* C2: under every interleaving each enqueued envelope is returned by exactly one
\* drain: never by two, and an envelope no drain has returned is still pending.
C2_ReturnedByExactlyOneDrain ==
  \A t \in 0..(clock - 1) :
    /\ returned[t] <= 1
    /\ returned[t] = 0 => Pending(t)

(***************************************************************************)
(* SpecRoute: the two routing functions of the coordinator applied to      *)
(* paths assembled from a directory, a stem and an extension.              *)
(***************************************************************************)
RoutePaths ==
  LET RouteDirs == << <<>>, <<"s","r","c","/">>, <<"a","p","i","/">>, <<"t","e","s","t","s","/">>, <<"L","i","b","/">>, <<"d","o","c","s","/">> >>
      RouteStems == << <<"u","s","e","r","s">>, <<"t","e","s","t","_","c","a","l","c">>, <<"s","c","h","e","m","a">>, <<"A","u","t","h">>, <<"a","p","p">>, <<"d","e","p","l","o","y">> >>
      RouteExts == << <<".","p","y">>, <<".","j","s","x">>, <<".","c","s","s">>, <<".","s","q","l">>, <<".","y","m","l">>, <<".","j","s","o","n">>, <<".","m","d">>, <<".","P","Y">> >>
  IN  {d \o s \o e : d \in Range(RouteDirs), s \in Range(RouteStems), e \in Range(RouteExts)}

FileTools == {"Write", "Edit", "MultiEdit"}

\* the query: a changed path and the tool that changed it
RouteInit ==
  /\ route \in {[NoRoute EXCEPT !.phase = "query", !.file_path = p, !.tool_name = t] :
                  p \in RoutePaths, t \in FileTools}
  /\ mailbox = [a \in {} |-> <<>>] /\ clock = 0 /\ unread = mailbox
  /\ agent_state = <<>> /\ last = <<>> /\ buf = <<>> /\ returned = <<>>
  /\ steps = 0
  /\ hook = <<>> /\ activities = <<>>

\* handle_file_changes, lines 126 and 143: the two routing answers for the query
RouteAnswer ==
  /\ route.phase = "query"
  /\ route' = [route EXCEPT
       !.phase = "answered",
       !.relevant = determine_relevant_agents(route.file_path),
       !.significant = is_significant_change(route.file_path, route.tool_name)]
  /\ UNCHANGED <<mailbox, clock, unread, agent_state, last, buf, returned, steps, hook, activities>>

RouteNext == RouteAnswer

SpecRoute == RouteInit /\ [][RouteNext]_vars

\* the routing predicate of each identity the coordinator routes to
routing_rule(a) ==
  CASE a = FE  -> routing_patterns.frontend_patterns
    [] a = UI  -> routing_patterns.ui_patterns
    [] a = BE  -> routing_patterns.backend_patterns \o << <<"a","p","i">> >>
    [] a = TE  -> routing_patterns.test_patterns
    [] a = OPS -> routing_patterns.devops_patterns
    [] a = DE  -> routing_patterns.database_patterns
    [] a = SEC -> routing_patterns.security_patterns

RoutedAgents == {FE, UI, BE, TE, OPS, DE, SEC}

NoDuplicates(s) == \A i, j \in 1..Len(s) : i # j => s[i] # s[j]

\* C8: determine_relevant_agents(path) is exactly the identities whose routing
\* predicate matches the lower-cased path, and names each of them once.
C8_RelevantIsUnionWithoutDuplicates ==
  route.phase = "answered" =>
    /\ NoDuplicates(route.relevant)
    /\ Range(route.relevant) =
         {a \in RoutedAgents : any_in(routing_rule(a), lower(route.file_path))}

\* C8 witness: two patterns of backend-developer (".py" and "api") and a pattern
\* of tester match the answered path
C8_Witness ==
  /\ route.phase = "answered"
  /\ In(<<"a","p","i">>, lower(route.file_path))
  /\ any_in(routing_patterns.backend_patterns, lower(route.file_path))
  /\ any_in(routing_patterns.test_patterns, lower(route.file_path))
  /\ BE \in Range(route.relevant) /\ TE \in Range(route.relevant)

(***************************************************************************)
(* Findings and file contents.  A content is its text together with the    *)
(* answers of the regular-expression searches the analyses run on it:      *)
(* `in` tests are computed on the text, re.search and re.findall are       *)
(* looked up in the content.                                               *)
(***************************************************************************)
\* a finding {type, severity, message}; the message is a tuple of its pieces
Issue(type, severity, message) ==
  [type |-> type, severity |-> severity, message |-> <<message>>]

\* a finding whose message is an f-string around a count
IssueN(type, severity, count, message) ==
  [type |-> type, severity |-> severity, message |-> <<"Found", count, message>>]

\* a list if the condition holds, the empty list otherwise: `if c: issues.append(x)`
When(c, x) == IF c THEN <<x>> ELSE <<>>

Content(text, re, count, functions) ==
  [text |-> text, re |-> re, count |-> count, functions |-> functions]

(***************************************************************************)
(* backend-developer.py                                                    *)
(***************************************************************************)
\* is_backend_file
is_backend_file(file_path) ==
  LET file_path_lower == lower(file_path)
      backend_extensions == << <<".","p","y">>, <<".","j","a","v","a">>, <<".","g","o">>, <<".","r","s">>, <<".","c","s">>, <<".","p","h","p">>, <<".","r","b">>, <<".","k","t">>, <<".","s","c","a","l","a">> >>
      backend_dirs == << <<"a","p","i","/">>, <<"s","e","r","v","e","r","/">>, <<"b","a","c","k","e","n","d","/">>, <<"s","e","r","v","i","c","e","s","/">>, <<"m","o","d","e","l","s","/">>, <<"c","o","n","t","r","o","l","l","e","r","s","/">>, <<"r","o","u","t","e","s","/">> >>
      backend_files == << <<"r","e","q","u","i","r","e","m","e","n","t","s",".","t","x","t">>, <<"p","a","c","k","a","g","e",".","j","s","o","n">>, <<"g","o",".","m","o","d">>, <<"c","a","r","g","o",".","t","o","m","l">>, <<"c","o","m","p","o","s","e","r",".","j","s","o","n">> >>
  IN  \/ any_endswith(backend_extensions, file_path_lower)
      \/ any_in(backend_dirs, file_path_lower)
      \/ any_in(backend_files, file_path_lower)

\* analyze_backend_code, with the analyses it calls
analyze_backend_code(file_path, content, tool_name) ==
  LET
      \* analyze_python_code
      analyze_python_code ==
           When("execute_format_string" \in content.re,
                Issue(<<"s","e","c","u","r","i","t","y","_","s","q","l","_","i","n","j","e","c","t","i","o","n">>, "critical",
                      "Potential SQL injection vulnerability - use parameterized queries"))
        \o When(In(<<"r","e","q","u","e","s","t","s",".">>, content.text) /\ ~In(<<"e","x","c","e","p","t">>, content.text),
                Issue(<<"e","r","r","o","r","_","h","a","n","d","l","i","n","g">>, "warning",
                      "HTTP requests should include proper error handling"))
        \o When("secret_assignment" \in content.re,
                Issue(<<"s","e","c","u","r","i","t","y","_","h","a","r","d","c","o","d","e","d","_","s","e","c","r","e","t","s">>, "critical",
                      "Hardcoded secrets detected - use environment variables"))
      \* analyze_nodejs_code
      analyze_nodejs_code ==
           When(In(<<"e","x","p","r","e","s","s","(",")">>, content.text) /\ ~In(<<"h","e","l","m","e","t">>, content.text),
                Issue(<<"s","e","c","u","r","i","t","y","_","h","e","a","d","e","r","s">>, "warning",
                      "Consider using helmet for security headers"))
        \o When(In(<<"e","x","p","r","e","s","s","(",")">>, content.text) /\ ~In(<<"c","o","r","s">>, content.text),
                Issue(<<"c","o","r","s","_","c","o","n","f","i","g","u","r","a","t","i","o","n">>, "suggestion",
                      "Consider configuring CORS for cross-origin requests"))
      \* analyze_general_backend_patterns
      analyze_general_backend_patterns ==
           When(any_in(<< <<"r","e","q","u","e","s","t",".">>, <<"r","e","q",".">> >>, content.text) /\ ~In(<<"v","a","l","i","d","a","t","e">>, lower(content.text)),
                Issue(<<"i","n","p","u","t","_","v","a","l","i","d","a","t","i","o","n">>, "warning",
                      "Consider adding input validation for request data"))
        \o When(In(<<"a","p","i">>, lower(file_path)) /\ ~In(<<"r","a","t","e">>, lower(content.text)),
                Issue(<<"r","a","t","e","_","l","i","m","i","t","i","n","g">>, "suggestion",
                      "Consider implementing rate limiting for API endpoints"))
      \* analyze_security_patterns
      analyze_security_patterns ==
        When(any_in(<< <<"l","o","g","i","n">>, <<"a","u","t","h">>, <<"t","o","k","e","n">> >>, content.text) /\ ~In(<<"b","c","r","y","p","t">>, content.text),
             Issue(<<"s","e","c","u","r","i","t","y","_","a","u","t","h","e","n","t","i","c","a","t","i","o","n">>, "warning",
                   "Ensure proper password hashing (consider bcrypt)"))
      \* analyze_database_patterns
      analyze_database_patterns ==
        When(In(<<"f","o","r">>, content.text) /\ any_in(<< <<"q","u","e","r","y">>, <<"f","i","n","d">>, <<"g","e","t">> >>, content.text),
             Issue(<<"d","a","t","a","b","a","s","e","_","n","_","p","l","u","s","_","o","n","e">>, "warning",
                   "Potential N+1 query problem - consider using joins or batch queries"))
  IN
  IF content.text = <<>> THEN <<>>
  ELSE (IF endswith(file_path, <<".","p","y">>)
          THEN analyze_python_code
        ELSE IF endswith(file_path, <<".","j","s">>) /\ any_in(<< <<"e","x","p","r","e","s","s">>, <<"f","a","s","t","i","f","y">>, <<"k","o","a">> >>, content.text)
          THEN analyze_nodejs_code
        ELSE <<>>)
       \o analyze_general_backend_patterns
       \o analyze_security_patterns
       \o analyze_database_patterns

(***************************************************************************)
(* frontend-developer.py                                                   *)
(***************************************************************************)
\* is_frontend_file
is_frontend_file(file_path) ==
  LET file_path_lower == lower(file_path)
      frontend_extensions == << <<".","j","s">>, <<".","j","s","x">>, <<".","t","s">>, <<".","t","s","x">>, <<".","v","u","e">>, <<".","s","v","e","l","t","e">>, <<".","m","j","s">>, <<".","c","j","s">>, <<".","e","s","6">>, <<".","e","s">> >>
      frontend_dirs == << <<"s","r","c","/">>, <<"c","o","m","p","o","n","e","n","t","s","/">>, <<"p","a","g","e","s","/">>, <<"v","i","e","w","s","/">>, <<"h","o","o","k","s","/">>, <<"u","t","i","l","s","/">>, <<"l","i","b","/">> >>
  IN  \/ any_endswith(frontend_extensions, file_path_lower)
      \/ any_in(frontend_dirs, file_path_lower)

\* analyze_frontend_code, with the analyses it calls
analyze_frontend_code(file_path, content, tool_name) ==
  LET
      \* analyze_react_code
      analyze_react_code ==
           When(/\ In(<<"j","s","x">>, lower(content.text))
                /\ ~In(<<"i","m","p","o","r","t"," ","r","e","a","c","t">>, lower(content.text))
                /\ ~any_in(<< <<"/","*","*"," ","@","j","s","x">>, <<"/","*"," ","@","j","s","x">> >>, content.text),
                Issue(<<"r","e","a","c","t","_","i","m","p","o","r","t">>, "warning", "Consider explicit React import for clarity"))
        \o When("inline_style" \in content.re,
                Issue(<<"i","n","l","i","n","e","_","s","t","y","l","e","s">>, "warning",
                      "Consider using CSS modules or styled-components instead of inline styles"))
        \o When("map_to_element" \in content.re /\ ~In(<<"k","e","y","=">>, content.text),
                Issue(<<"m","i","s","s","i","n","g","_","k","e","y">>, "critical",
                      "Missing 'key' prop in list items - this will cause React warnings"))
        \o When("useState_call" \in content.re /\ "state_setter_pair" \notin content.re,
                Issue(<<"u","s","e","S","t","a","t","e","_","n","a","m","i","n","g">>, "suggestion",
                      "Consider using conventional useState naming: [value, setValue]"))
        \o When(In(<<"u","s","e","E","f","f","e","c","t">>, content.text) /\ "useEffect_with_deps" \notin content.re,
                Issue(<<"u","s","e","E","f","f","e","c","t","_","d","e","p","s">>, "warning",
                      "useEffect should include dependency array to prevent infinite re-renders"))
      \* analyze_vue_code
      analyze_vue_code ==
           When(/\ In(<<"v","-","f","o","r">>, content.text)
                /\ ~In(<<":","k","e","y">>, content.text) /\ ~In(<<"k","e","y","=">>, content.text),
                Issue(<<"v","u","e","_","m","i","s","s","i","n","g","_","k","e","y">>, "critical", "Missing ':key' attribute in v-for directive"))
        \o When(any_in(<< <<"d","o","c","u","m","e","n","t",".","g","e","t","E","l","e","m","e","n","t","B","y","I","d">>, <<"d","o","c","u","m","e","n","t",".","q","u","e","r","y","S","e","l","e","c","t","o","r">>, <<"d","o","c","u","m","e","n","t",".","g","e","t","E","l","e","m","e","n","t","s","B","y">> >>,
                       content.text),
                Issue(<<"v","u","e","_","d","o","m","_","m","a","n","i","p","u","l","a","t","i","o","n">>, "warning",
                      "Avoid direct DOM manipulation in Vue - use refs instead"))
      \* analyze_javascript_code
      analyze_javascript_code ==
           When(content.count.console_log > 0,
                IssueN(<<"c","o","n","s","o","l","e","_","l","o","g","s">>, "warning", content.count.console_log,
                       "console.log statement(s) - remove before production"))
        \o When("var_declaration" \in content.re,
                Issue(<<"v","a","r","_","u","s","a","g","e">>, "suggestion", "Consider using 'let' or 'const' instead of 'var'"))
        \o When(content.count.loose_equality > 0,
                IssueN(<<"l","o","o","s","e","_","e","q","u","a","l","i","t","y">>, "suggestion", content.count.loose_equality,
                       "loose equality operator(s) - consider using '===' for strict comparison"))
        \o When(/\ In(<<"a","s","y","n","c">>, content.text) /\ In(<<"a","w","a","i","t">>, content.text)
                /\ ~In(<<"t","r","y">>, content.text),
                Issue(<<"m","i","s","s","i","n","g","_","e","r","r","o","r","_","h","a","n","d","l","i","n","g">>, "warning",
                      "Async functions should include error handling with try/catch"))
      \* analyze_performance_patterns
      analyze_performance_patterns ==
           When("lodash_star_import" \in content.re,
                Issue(<<"l","a","r","g","e","_","i","m","p","o","r","t">>, "warning",
                      "Importing entire lodash library - consider importing specific functions"))
        \o When(/\ (In(<<"e","x","p","e","n","s","i","v","e">>, lower(content.text)) \/ In(<<"h","e","a","v","y">>, lower(content.text)))
                /\ ~In(<<"R","e","a","c","t",".","m","e","m","o">>, content.text) /\ ~In(<<"u","s","e","M","e","m","o">>, content.text),
                Issue(<<"m","i","s","s","i","n","g","_","m","e","m","o","i","z","a","t","i","o","n">>, "suggestion",
                      "Consider using React.memo or useMemo for expensive operations"))
      \* analyze_accessibility
      analyze_accessibility ==
           When(In(<<"<","i","m","g">>, content.text) /\ ~In(<<"a","l","t","=">>, content.text),
                Issue(<<"m","i","s","s","i","n","g","_","a","l","t","_","t","e","x","t">>, "warning",
                      "Images should include alt text for accessibility"))
        \o When(/\ any_in(<< <<"<","b","u","t","t","o","n",">">>, <<"<","i","n","p","u","t">>, <<"<","s","e","l","e","c","t">> >>, content.text)
                /\ ~In(<<"a","r","i","a","-","l","a","b","e","l">>, content.text) /\ ~In(<<"a","r","i","a","-","l","a","b","e","l","l","e","d","b","y">>, content.text),
                Issue(<<"m","i","s","s","i","n","g","_","a","r","i","a","_","l","a","b","e","l">>, "suggestion",
                      "Consider adding aria-label for better accessibility"))
  IN
  IF content.text = <<>> THEN <<>>
  ELSE (IF any_endswith(<< <<".","j","s","x">>, <<".","t","s","x">> >>, file_path) \/ In(<<"r","e","a","c","t">>, lower(content.text))
             THEN analyze_react_code ELSE <<>>)
       \o (IF endswith(file_path, <<".","v","u","e">>) \/ In(<<"v","u","e">>, lower(content.text))
             THEN analyze_vue_code ELSE <<>>)
       \o analyze_javascript_code
       \o analyze_performance_patterns
       \o analyze_accessibility

(***************************************************************************)
(* The agent runtimes.                                                     *)
(*                                                                         *)
(* One invocation (process_hook_input) runs to completion.  It is computed *)
(* on a world record w: the mailboxes, the clock, the persisted agent      *)
(* state, and what the invocation has done so far (the envelopes it sent,  *)
(* the envelopes it drained, the handlers it ran, the meetings it called,  *)
(* whether it raised) with the decision it returns.                        *)
(***************************************************************************)
RES == "researcher"
PERF == "performance-engineer"

Agents == {PM, FE, BE, TE, UI, DE, DBG, RES, PERF, SEC, OPS}
TemplateAgents == {DBG, DE, UI, RES, PERF}
Runtimes == {PM, FE, BE, TE} \cup TemplateAgents

\* {"message": "", "block": False}
NoOp == [message |-> <<>>, block |-> FALSE]

\* one line of a message ("\n".join(message_parts)): the part of the message it
\* belongs to and its text
Line(section, text) == [section |-> section, text |-> text]

\* s[:n]
Take(s, n) == SubSeq(s, 1, IF Len(s) < n THEN Len(s) ELSE n)

\* the bullet lines of one section: f"   • {issue['message']}" for each issue
Bullets(section, issues) == [i \in 1..Len(issues) |-> Line(section, issues[i].message)]

\* the content of an absent field: the empty string, on which no search succeeds
EmptyContent ==
  [text |-> <<>>, re |-> {}, count |-> [console_log |-> 0, loose_equality |-> 0],
   functions |-> <<>>]

\* tool_input.get("file_path", "") or tool_input.get("path", "")
input_file_path(tool_input) ==
  IF get(tool_input, "file_path", <<>>) # <<>>
  THEN tool_input.file_path
  ELSE get(tool_input, "path", <<>>)

\* tool_input.get("content", "") or tool_input.get("new_string", "")
input_content(tool_input) ==
  IF get(tool_input, "content", EmptyContent).text # <<>>
  THEN tool_input.content
  ELSE get(tool_input, "new_string", EmptyContent)

\* `return decision`
Return(w, decision) == [w EXCEPT !.decision = decision]

\* an exception leaves the invocation: nothing is returned
Raise(w, error) == [w EXCEPT !.raised = TRUE, !.error = error]

\* a send that rewrites the recipient's store with the new envelope alone
send_message_replacing(w, from, to, type, data, priority) ==
  LET e == Envelope(from, to, type, data, priority, w.clock)
  IN  [w EXCEPT !.mailbox[to] = <<e>>, !.clock = @ + 1, !.sent = Append(@, e)]

\* BaseAgent.send_message(to, type, data, priority="normal"): build the envelope,
\* stamp it and enqueue it in the recipient's mailbox at once
send_message(w, from, to, type, data, priority) ==
  LET e == Envelope(from, to, type, data, priority, w.clock)
  IN  [w EXCEPT !.mailbox[to] = enqueue(@, e), !.clock = @ + 1, !.sent = Append(@, e)]

RECURSIVE send_each(_, _, _, _, _, _)
\* one copy of an envelope to each recipient, in list order
send_each(w, from, recipients, type, data, priority) ==
  IF recipients = <<>> THEN w
  ELSE send_each(send_message(w, from, Head(recipients), type, data, priority),
                 from, Tail(recipients), type, data, priority)

(***************************************************************************)
(* tester.py                                                               *)
(***************************************************************************)
\* is_test_file
is_test_file(file_path) ==
  LET tester_test_patterns == << <<"t","e","s","t","_">>, <<"_","t","e","s","t",".">>, <<".","t","e","s","t",".">>, <<".","s","p","e","c",".">>, <<"_","s","p","e","c",".">>, <<"/","t","e","s","t","s","/">>, <<"/","t","e","s","t","/">>, <<"_","_","t","e","s","t","s","_","_","/">>, <<"/","s","p","e","c","/">> >>
  IN  any_in(tester_test_patterns, lower(file_path))

\* is_testable_code
is_testable_code(file_path) ==
  LET testable_extensions == << <<".","p","y">>, <<".","j","s">>, <<".","j","s","x">>, <<".","t","s">>, <<".","t","s","x">>, <<".","j","a","v","a">>, <<".","g","o">>, <<".","r","s">>, <<".","c","s">>, <<".","p","h","p">>, <<".","r","b">>, <<".","k","t">>, <<".","s","c","a","l","a">> >>
  IN  /\ ~is_test_file(file_path)
      /\ any_endswith(testable_extensions, lower(file_path))

\* get_corresponding_test_file
get_corresponding_test_file(file_path) ==
  LET name == path_name(file_path)
      \* path.parent / <file name>
      sibling(file_name) == SubSeq(file_path, 1, Len(file_path) - Len(name)) \o file_name
      dots == {i \in 2..Len(name) : name[i] = "."}
      \* path.suffix: the last dot of the name and what follows it, if that dot is
      \* not the first character of the name
      suffix == IF dots = {} THEN <<>>
                ELSE SubSeq(name, CHOOSE i \in dots : \A k \in dots : k <= i, Len(name))
      \* path.stem
      stem == SubSeq(name, 1, Len(name) - Len(suffix))
  IN  IF endswith(file_path, <<".","p","y">>) THEN sibling(<<"t","e","s","t","_">> \o name)
      ELSE IF any_endswith(<< <<".","j","s">>, <<".","j","s","x">>, <<".","t","s">>, <<".","t","s","x">> >>, file_path)
        THEN sibling(stem \o <<".","t","e","s","t">> \o suffix)
      ELSE IF endswith(file_path, <<".","j","a","v","a">>) THEN sibling(stem \o <<"T","e","s","t">> \o suffix)
      ELSE sibling(stem \o <<"_","t","e","s","t">> \o suffix)

\* the files of the working tree: Path(p).exists()
exists(file_path) == file_path \in { <<"l","i","b","/","t","e","s","t","_","c","a","l","c",".","p","y">> }

\* analyze_test_code
analyze_test_code(file_path, content, tool_name) ==
  IF content.text = <<>> THEN <<>>
  ELSE When(~any_in(<< <<"t","e","s","t">>, <<"i","t","(">>, <<"d","e","s","c","r","i","b","e","(">>, <<"d","e","f"," ","t","e","s","t","_">> >>, content.text),
            Issue(<<"t","e","s","t","_","s","t","r","u","c","t","u","r","e">>, "critical",
                  "No test functions found - ensure proper test structure"))
    \o When(~any_in(<< <<"a","s","s","e","r","t">>, <<"e","x","p","e","c","t">>, <<"s","h","o","u","l","d">>, <<"a","s","s","e","r","t","E","q","u","a","l">> >>, content.text),
            Issue(<<"m","i","s","s","i","n","g","_","a","s","s","e","r","t","i","o","n","s">>, "critical",
                  "No assertions found - tests should include assertions"))
    \o When(In(<<"t","e","s","t">>, content.text) /\ ~any_in(<< <<"s","e","t","U","p">>, <<"b","e","f","o","r","e","E","a","c","h">>, <<"f","i","x","t","u","r","e">> >>, content.text),
            Issue(<<"t","e","s","t","_","s","e","t","u","p">>, "suggestion",
                  "Consider adding test setup/teardown for consistent test data"))
    \o When(~any_in(<< <<"n","u","l","l">>, <<"u","n","d","e","f","i","n","e","d">>, <<"e","m","p","t","y">>, <<"z","e","r","o">>, <<"n","e","g","a","t","i","v","e">>, <<"b","o","u","n","d","a","r","y">> >>, lower(content.text)),
            Issue(<<"e","d","g","e","_","c","a","s","e","s">>, "warning",
                  "Consider adding edge case tests (null, empty, boundary values)"))
    \o When(In(<<"g","l","o","b","a","l">>, content.text) \/ In(<<"s","h","a","r","e","d">>, content.text),
            Issue(<<"t","e","s","t","_","i","s","o","l","a","t","i","o","n">>, "warning",
                  "Ensure tests are isolated and don't depend on shared state"))

\* analyze_testability: the suggested test scenarios, a list of strings
analyze_testability(file_path, content) ==
  IF content.text = <<>> THEN <<>>
  ELSE When(content.functions # <<>>,
            <<"Test main functions:", Take(content.functions, 3)>>)
    \o When(any_in(<< <<"t","r","y">>, <<"c","a","t","c","h">>, <<"e","x","c","e","p","t">>, <<"t","h","r","o","w">>, <<"r","a","i","s","e">> >>, content.text),
            <<"Test error handling and exception scenarios">>)
    \o When(any_in(<< <<"i","f">>, <<"e","l","s","e">>, <<"s","w","i","t","c","h">>, <<"c","a","s","e">> >>, content.text),
            <<"Test all conditional branches and edge cases">>)
    \o When(any_in(<< <<"f","o","r">>, <<"w","h","i","l","e">>, <<"f","o","r","E","a","c","h">>, <<"m","a","p">> >>, content.text),
            <<"Test loop behavior with empty, single, and multiple items">>)
    \o When(any_in(<< <<"r","e","q","u","e","s","t">>, <<"r","e","s","p","o","n","s","e">>, <<"f","e","t","c","h">>, <<"a","x","i","o","s">>, <<"h","t","t","p">> >>, content.text),
            <<"Test API calls with mocked responses and error scenarios">>)
    \o When(any_in(<< <<"q","u","e","r","y">>, <<"s","e","l","e","c","t">>, <<"i","n","s","e","r","t">>, <<"u","p","d","a","t","e">>, <<"d","e","l","e","t","e">> >>, content.text),
            <<"Test database operations with test data and rollback">>)
    \o When(any_in(<< <<"a","s","y","n","c">>, <<"a","w","a","i","t">>, <<"P","r","o","m","i","s","e">>, <<"t","h","e","n">> >>, content.text),
            <<"Test asynchronous operations and timeout scenarios">>)
    \o When(any_in(<< <<"v","a","l","i","d","a","t","e">>, <<"s","a","n","i","t","i","z","e">>, <<"p","a","r","s","e">> >>, content.text),
            <<"Test input validation with valid and invalid data">>)

(***************************************************************************)
(* debugger.py and the agents generated from the same template:            *)
(* data-engineer.py, ui-developer.py, researcher.py,                       *)
(* performance-engineer.py.                                                *)
(***************************************************************************)
\* is_relevant_file, with the relevant_extensions and relevant_dirs of each agent
is_relevant_file(agent, file_path) ==
  LET file_path_lower == lower(file_path)
      relevant_extensions ==
        CASE agent = DBG  -> << <<".","p","y">>, <<".","j","s">>, <<".","j","s","x">>, <<".","t","s">>, <<".","t","s","x">>, <<".","j","a","v","a">>, <<".","g","o">> >>
          [] agent = DE   -> << <<".","s","q","l">>, <<".","p","y">>, <<".","j","s">>, <<".","j","s","o","n">> >>
          [] agent = RES  -> << <<".","m","d">>, <<".","p","y">>, <<".","j","s">>, <<".","j","s","o","n">> >>
          [] agent = UI   -> << <<".","c","s","s">>, <<".","s","c","s","s">>, <<".","s","a","s","s">>, <<".","l","e","s","s">>, <<".","s","t","y","l","e","d",".","j","s">> >>
          [] agent = PERF -> << <<".","p","y">>, <<".","j","s">>, <<".","j","s","x">>, <<".","t","s">>, <<".","t","s","x">>, <<".","j","a","v","a">>, <<".","g","o">> >>
      relevant_dirs ==
        CASE agent = DBG  -> << <<"s","r","c","/">>, <<"l","i","b","/">>, <<"a","p","p","/">> >>
          [] agent = DE   -> << <<"d","a","t","a","/">>, <<"d","b","/">>, <<"m","i","g","r","a","t","i","o","n","s","/">>, <<"m","o","d","e","l","s","/">> >>
          [] agent = RES  -> << <<"d","o","c","s","/">>, <<"r","e","s","e","a","r","c","h","/">>, <<"e","x","a","m","p","l","e","s","/">> >>
          [] agent = UI   -> << <<"s","t","y","l","e","s","/">>, <<"c","s","s","/">>, <<"d","e","s","i","g","n","/">>, <<"u","i","/">> >>
          [] agent = PERF -> << <<"s","r","c","/">>, <<"l","i","b","/">>, <<"a","p","i","/">> >>
  IN  \/ any_endswith(relevant_extensions, file_path_lower)
      \/ any_in(relevant_dirs, file_path_lower)

\* analyze_content: the template adds no check
analyze_content(agent, file_path, content, tool_name) == <<>>

\* get_command_suggestions: the template adds no suggestion
get_command_suggestions(agent, command) == <<>>

\* generate_recommendations: the template adds no recommendation
generate_recommendations(agent, file_path, review_type) == <<>>

\* the type of the acknowledgement each template agent sends
review_complete_type(agent) ==
  CASE agent = DBG  -> "debugger_review_complete"
    [] agent = DE   -> "data_engineer_review_complete"
    [] agent = RES  -> "researcher_review_complete"
    [] agent = UI   -> "ui_developer_review_complete"
    [] agent = PERF -> "performance_engineer_review_complete"

(***************************************************************************)
(* File operations: analysis, decision policy, notifications.              *)
(***************************************************************************)
\* [i for i in issues if i["severity"] == severity]
BySeverity(issues, severity) == SelectSeq(issues, LAMBDA i : i.severity = severity)

\* the findings whose type is the word itself
Tagged_whole_type(issues, word) == SelectSeq(issues, LAMBDA i : i.type = word)

\* [i for i in issues if word in i["type"]]
Tagged(issues, word) == SelectSeq(issues, LAMBDA i : In(word, i.type))

\* the "Warnings:" and "Suggestions:" sections with a bullet for every finding
advisory_sections_untruncated(issues) ==
  LET warnings == BySeverity(issues, "warning")
      suggestions == BySeverity(issues, "suggestion")
  IN     (IF warnings # <<>>
          THEN <<Line("title", <<"Warnings:">>)>> \o Bullets("warning", warnings)
          ELSE <<>>)
      \o (IF suggestions # <<>>
          THEN <<Line("title", <<"Suggestions:">>)>> \o Bullets("suggestion", suggestions)
          ELSE <<>>)

\* the "Warnings:" and "Suggestions:" sections: at most two bullets each (the
\* tester words the titles "Test Warnings:" and "Test Suggestions:")
advisory_sections(issues) ==
  LET warnings == BySeverity(issues, "warning")
      suggestions == BySeverity(issues, "suggestion")
  IN     (IF warnings # <<>>
          THEN <<Line("title", <<"Warnings:">>)>> \o Bullets("warning", Take(warnings, 2))
          ELSE <<>>)
      \o (IF suggestions # <<>>
          THEN <<Line("title", <<"Suggestions:">>)>>
               \o Bullets("suggestion", Take(suggestions, 2))
          ELSE <<>>)

\* the "Critical Issues Found:" section: at most three bullets (the tester
\* words the title "Critical Test Issues:")
critical_section(issues) ==
  <<Line("title", <<"Critical Issues Found:">>)>>
  \o Bullets("critical", Take(BySeverity(issues, "critical"), 3))

\* the first line: f"... Reviewing {Path(file_path).name}"
reviewing(file_path) == <<Line("header", <<"Reviewing", path_name(file_path)>>)>>

\* the positive feedback: f"... {Path(file_path).name} looks ..." (each agent
\* has its own wording)
looks_good(file_path) ==
  [message |-> <<Line("affirmation", <<path_name(file_path), "looks good">>)>>, block |-> FALSE]

\* handle_file_operations that asks data-engineer for the database review
\* before it looks at the severities
backend_handle_file_operations_coordinating(w, tool_name, tool_input) ==
  LET file_path == input_file_path(tool_input)
      content == input_content(tool_input)
      issues == analyze_backend_code(file_path, content, tool_name)
      critical_issues == BySeverity(issues, "critical")
      w0 == IF Tagged(issues, <<"d","a","t","a","b","a","s","e">>) # <<>>
            THEN send_message(w, BE, DE, "database_optimization_review",
                   [file_path |-> file_path,
                    database_issues |-> Tagged(issues, <<"d","a","t","a","b","a","s","e">>)],
                   "normal")
            ELSE w
  IN  IF file_path = <<>> THEN Return(w, NoOp)
      ELSE IF ~is_backend_file(file_path) THEN Return(w, NoOp)
      ELSE IF issues = <<>> THEN Return(w, looks_good(file_path))
      ELSE IF critical_issues # <<>> THEN
        LET w1 == send_message(w0, BE, PM, "critical_backend_issue",
                    [file_path |-> file_path, issues |-> critical_issues, agent |-> BE],
                    "high")
            w2 == IF Tagged(critical_issues, <<"s","e","c","u","r","i","t","y">>) # <<>>
                  THEN send_message(w1, BE, SEC, "security_review_needed",
                         [file_path |-> file_path,
                          security_issues |-> Tagged(critical_issues, <<"s","e","c","u","r","i","t","y">>)],
                         "high")
                  ELSE w1
        IN  Return(w2, [message |-> reviewing(file_path) \o critical_section(issues),
                        block |-> TRUE])
      ELSE
        Return(w0, [message |-> reviewing(file_path) \o advisory_sections(issues),
                    block |-> FALSE])

\* BackendDeveloperAgent.handle_file_operations
backend_handle_file_operations(w, tool_name, tool_input) ==
  LET file_path == input_file_path(tool_input)
      content == input_content(tool_input)
      issues == analyze_backend_code(file_path, content, tool_name)
      critical_issues == BySeverity(issues, "critical")
  IN  IF file_path = <<>> THEN Return(w, NoOp)
      ELSE IF ~is_backend_file(file_path) THEN Return(w, NoOp)
      ELSE IF issues = <<>> THEN Return(w, looks_good(file_path))
      ELSE IF critical_issues # <<>> THEN
        LET w1 == send_message(w, BE, PM, "critical_backend_issue",
                    [file_path |-> file_path, issues |-> critical_issues, agent |-> BE],
                    "high")
            w2 == IF Tagged(critical_issues, <<"s","e","c","u","r","i","t","y">>) # <<>>
                  THEN send_message(w1, BE, SEC, "security_review_needed",
                         [file_path |-> file_path,
                          security_issues |-> Tagged(critical_issues, <<"s","e","c","u","r","i","t","y">>)],
                         "high")
                  ELSE w1
        IN  Return(w2, [message |-> reviewing(file_path) \o critical_section(issues),
                        block |-> TRUE])
      ELSE
        LET w1 == IF Tagged(issues, <<"d","a","t","a","b","a","s","e">>) # <<>>
                  THEN send_message(w, BE, DE, "database_optimization_review",
                         [file_path |-> file_path,
                          database_issues |-> Tagged(issues, <<"d","a","t","a","b","a","s","e">>)],
                         "normal")
                  ELSE w
        IN  Return(w1, [message |-> reviewing(file_path) \o advisory_sections(issues),
                        block |-> FALSE])

\* FrontendDeveloperAgent.handle_file_operations
frontend_handle_file_operations(w, tool_name, tool_input) ==
  LET file_path == input_file_path(tool_input)
      content == input_content(tool_input)
      issues == analyze_frontend_code(file_path, content, tool_name)
      critical_issues == BySeverity(issues, "critical")
  IN  IF file_path = <<>> THEN Return(w, NoOp)
      ELSE IF ~is_frontend_file(file_path) THEN Return(w, NoOp)
      ELSE IF issues = <<>> THEN Return(w, looks_good(file_path))
      ELSE IF critical_issues # <<>> THEN
        LET w1 == send_message(w, FE, PM, "critical_issue_found",
                    [file_path |-> file_path, issues |-> critical_issues, agent |-> FE],
                    "high")
        IN  Return(w1, [message |-> reviewing(file_path) \o critical_section(issues),
                        block |-> TRUE])
      ELSE
        LET w1 == IF Tagged(issues, <<"s","t","y","l","e">>) # <<>>
                  THEN send_message(w, FE, UI, "styling_coordination",
                         [file_path |-> file_path,
                          styling_issues |-> Tagged(issues, <<"s","t","y","l","e">>)],
                         "normal")
                  ELSE w
        IN  Return(w1, [message |-> reviewing(file_path) \o advisory_sections(issues),
                        block |-> FALSE])

\* TesterAgent.handle_test_file_operations: a blocking decision sends nothing
handle_test_file_operations(w, file_path, content, tool_name) ==
  LET issues == analyze_test_code(file_path, content, tool_name)
  IN  IF issues = <<>> THEN Return(w, looks_good(file_path))
      ELSE IF BySeverity(issues, "critical") # <<>> THEN
        Return(w, [message |-> reviewing(file_path) \o critical_section(issues),
                   block |-> TRUE])
      ELSE
        Return(w, [message |-> reviewing(file_path) \o advisory_sections(issues),
                   block |-> FALSE])

\* TesterAgent.handle_testable_code_operations: up to three suggested scenarios
handle_testable_code_operations(w, file_path, content, tool_name) ==
  LET test_suggestions == analyze_testability(file_path, content)
      test_file_path == get_corresponding_test_file(file_path)
  IN  IF test_suggestions = <<>> THEN Return(w, NoOp)
      ELSE
        LET w1 == send_message(w, TE, PM, "testing_recommendations",
                    [file_path |-> file_path, test_file_path |-> test_file_path,
                     suggestions |-> test_suggestions, agent |-> TE],
                    "normal")
        IN  Return(w1,
              [message |->
                    <<Line("header", <<"Analyzing testability of", path_name(file_path)>>)>>
                 \o (IF ~exists(test_file_path)
                     THEN <<Line("warning", <<"No corresponding test file found">>),
                            Line("suggestion", <<"Consider creating:", test_file_path>>)>>
                     ELSE <<>>)
                 \o <<Line("title", <<"Suggested test scenarios:">>)>>
                 \o [i \in 1..Len(Take(test_suggestions, 3)) |->
                       Line("scenario", test_suggestions[i])],
               block |-> FALSE])

\* TesterAgent.handle_file_operations
tester_handle_file_operations(w, tool_name, tool_input) ==
  LET file_path == input_file_path(tool_input)
      content == input_content(tool_input)
  IN  IF file_path = <<>> THEN Return(w, NoOp)
      ELSE IF is_test_file(file_path)
        THEN handle_test_file_operations(w, file_path, content, tool_name)
      ELSE IF is_testable_code(file_path)
        THEN handle_testable_code_operations(w, file_path, content, tool_name)
      ELSE Return(w, NoOp)

\* handle_file_operations of the template agents
template_handle_file_operations(w, agent, tool_name, tool_input) ==
  LET file_path == input_file_path(tool_input)
      content == input_content(tool_input)
      issues == analyze_content(agent, file_path, content, tool_name)
      critical_issues == BySeverity(issues, "critical")
  IN  IF file_path = <<>> THEN Return(w, NoOp)
      ELSE IF ~is_relevant_file(agent, file_path) THEN Return(w, NoOp)
      ELSE IF issues = <<>> THEN Return(w, looks_good(file_path))
      ELSE IF critical_issues # <<>> THEN
        LET w1 == send_message(w, agent, PM, "critical_issue_found",
                    [file_path |-> file_path, issues |-> critical_issues, agent |-> agent],
                    "high")
        IN  Return(w1, [message |-> reviewing(file_path) \o critical_section(issues),
                        block |-> TRUE])
      ELSE Return(w, [message |-> reviewing(file_path) \o advisory_sections(issues),
                      block |-> FALSE])

(***************************************************************************)
(* Command analysis (tool_name == "Bash") and the generic path.            *)
(***************************************************************************)
\* tool_input.get("command", "")
input_command(tool_input) == get(tool_input, "command", <<>>)

\* the lines f"... {w}" for w in warnings, f"... {s}" for s in suggestions
Hints(section, texts) == [i \in 1..Len(texts) |-> Line(section, <<texts[i]>>)]

\* `if suggestions or warnings:` a title line, the warnings, the suggestions;
\* the no-op decision otherwise
command_analysis(title, warnings, suggestions) ==
  IF suggestions # <<>> \/ warnings # <<>>
  THEN [message |-> <<Line("header", <<title>>)>>
                    \o Hints("warning", warnings) \o Hints("suggestion", suggestions),
        block |-> FALSE]
  ELSE NoOp

\* BackendDeveloperAgent.handle_bash_commands, with the handlers it calls
backend_handle_bash_commands(w, tool_input) ==
  LET command == input_command(tool_input)
      \* handle_database_commands
      handle_database_commands ==
        command_analysis("Database command analysis",
          When(any_in(<< <<"d","r","o","p">>, <<"d","e","l","e","t","e">>, <<"t","r","u","n","c","a","t","e">> >>, command),
               "Destructive database operation detected - ensure you have backups!"),
             When(In(<<"s","e","l","e","c","t">>, lower(command)) /\ ~In(<<"w","h","e","r","e">>, lower(command)),
                  "Consider adding WHERE clause to limit query scope")
          \o When(In(<<"c","r","e","a","t","e"," ","t","a","b","l","e">>, lower(command)),
                  "Don't forget to add appropriate indexes for query performance"))
      \* handle_server_commands
      handle_server_commands ==
        command_analysis("Server command analysis", <<>>,
             When(In(<<"d","o","c","k","e","r"," ","r","u","n">>, command) /\ ~In(<<"-","d">>, command),
                  "Consider running Docker containers in detached mode (-d)")
          \o When(In(<<"n","g","i","n","x">>, command),
                  "Ensure SSL/TLS configuration for production deployments"))
      \* handle_package_commands
      handle_package_commands ==
        command_analysis("Package analysis", <<>>,
             When(In(<<"b","c","r","y","p","t">>, command), "Good choice for password hashing")
          \o When(In(<<"h","e","l","m","e","t">>, command), "Excellent for Express.js security headers")
          \o When(In(<<"c","o","r","s">>, command),
                  "Remember to configure CORS properly for production"))
  IN  IF any_in(<< <<"p","s","q","l">>, <<"m","y","s","q","l">>, <<"m","o","n","g","o">>, <<"r","e","d","i","s">>, <<"s","q","l","i","t","e">> >>, command)
        THEN Return(w, handle_database_commands)
      ELSE IF any_in(<< <<"d","o","c","k","e","r">>, <<"k","u","b","e","r","n","e","t","e","s">>, <<"n","g","i","n","x">>, <<"a","p","a","c","h","e">>, <<"g","u","n","i","c","o","r","n">>, <<"u","v","i","c","o","r","n">> >>, command)
        THEN Return(w, handle_server_commands)
      ELSE IF any_in(<< <<"p","i","p"," ","i","n","s","t","a","l","l">>, <<"n","p","m"," ","i","n","s","t","a","l","l">>, <<"c","o","m","p","o","s","e","r"," ","i","n","s","t","a","l","l">> >>, command)
        THEN Return(w, handle_package_commands)
      ELSE Return(w, NoOp)

\* FrontendDeveloperAgent.handle_bash_commands, with the handlers it calls
frontend_handle_bash_commands(w, tool_input) ==
  LET command == input_command(tool_input)
      \* get_package_suggestions
      get_package_suggestions ==
           When(In(<<"a","x","i","o","s">>, command),
                "Consider using the built-in fetch API for simpler HTTP requests")
        \o When(In(<<"m","o","m","e","n","t">>, command),
                "Consider using date-fns or dayjs for smaller bundle size")
        \o When(In(<<"l","o","d","a","s","h">>, command),
                "Consider importing specific functions to reduce bundle size")
      \* get_build_suggestions
      get_build_suggestions ==
        << "Ensure code splitting is enabled for optimal bundle sizes",
           "Consider enabling tree shaking to remove unused code",
           "Check if source maps are disabled for production builds" >>
      \* get_dev_server_suggestions
      get_dev_server_suggestions ==
        << "Enable hot module replacement for faster development",
           "Consider using HTTPS in development if working with secure APIs" >>
      \* handle_frontend_commands
      handle_frontend_commands ==
        command_analysis("Command analysis", <<>>,
             (IF In(<<"i","n","s","t","a","l","l">>, command) \/ In(<<"a","d","d">>, command)
              THEN get_package_suggestions ELSE <<>>)
          \o (IF In(<<"b","u","i","l","d">>, command) THEN get_build_suggestions ELSE <<>>)
          \o (IF any_in(<< <<"d","e","v">>, <<"s","t","a","r","t">>, <<"s","e","r","v","e">> >>, command)
              THEN get_dev_server_suggestions ELSE <<>>))
  IN  IF any_in(<< <<"n","p","m">>, <<"y","a","r","n">>, <<"p","n","p","m">>, <<"w","e","b","p","a","c","k">>, <<"v","i","t","e">>, <<"p","a","r","c","e","l">> >>, command)
        THEN Return(w, handle_frontend_commands)
      ELSE Return(w, NoOp)

\* TesterAgent.handle_bash_commands, with the handlers it calls
tester_handle_bash_commands(w, tool_input) ==
  LET command == input_command(tool_input)
      \* handle_test_runner_commands
      handle_test_runner_commands ==
        command_analysis("Test runner analysis", <<>>,
             When(In(<<"p","y","t","e","s","t">>, command) /\ ~In(<<"-","-","c","o","v">>, command),
                  "Consider adding --cov flag for coverage reporting")
          \o When(In(<<"j","e","s","t">>, command) /\ ~In(<<"-","-","c","o","v","e","r","a","g","e">>, command),
                  "Consider adding --coverage flag for coverage analysis")
          \o When(/\ any_in(<< <<"p","y","t","e","s","t">>, <<"j","e","s","t">> >>, command)
                  /\ ~In(<<"-","j">>, command) /\ ~In(<<"-","-","p","a","r","a","l","l","e","l">>, command),
                  "Consider parallel test execution for faster runs")
          \o When(/\ In(<<"j","e","s","t">>, command) /\ ~In(<<"-","-","w","a","t","c","h">>, command)
                  /\ ~In(<<"c","i">>, lower(command)),
                  "Consider --watch mode for development"))
      \* handle_coverage_commands
      handle_coverage_commands ==
        command_analysis("Coverage analysis", <<>>,
          When(In(<<"c","o","v","e","r","a","g","e">>, command) /\ ~In(<<"h","t","m","l">>, command),
               "Consider generating HTML coverage reports for better visualization"))
      \* handle_ci_commands
      handle_ci_commands ==
        command_analysis("CI/CD analysis", <<>>,
          When(In(<<"t","e","s","t">>, command),
               "Ensure tests run in CI environment with proper test data"))
  IN  IF any_in(<< <<"p","y","t","e","s","t">>, <<"j","e","s","t">>, <<"m","o","c","h","a">>, <<"p","h","p","u","n","i","t">>, <<"r","s","p","e","c">>, <<"g","o"," ","t","e","s","t">> >>, command)
        THEN Return(w, handle_test_runner_commands)
      ELSE IF any_in(<< <<"c","o","v","e","r","a","g","e">>, <<"n","y","c">>, <<"i","s","t","a","n","b","u","l">> >>, command)
        THEN Return(w, handle_coverage_commands)
      ELSE IF any_in(<< <<"g","i","t","h","u","b">>, <<"g","i","t","l","a","b">>, <<"j","e","n","k","i","n","s">>, <<"t","r","a","v","i","s">> >>, command)
        THEN Return(w, handle_ci_commands)
      ELSE Return(w, NoOp)

\* a pre-commit validation that holds the commit back
handle_pre_commit_validation_blocking(w, tool_input) ==
  Return(w, [message |-> <<Line("header", <<"Pre-commit validation">>)>>
                         \o Hints("check", << "Run test suite before committing",
                                              "Verify test coverage hasn't decreased" >>),
             block |-> TRUE])

\* TesterAgent.handle_pre_commit_validation
handle_pre_commit_validation(w, tool_input) ==
  Return(w, [message |-> <<Line("header", <<"Pre-commit validation">>)>>
                         \o Hints("check", << "Run test suite before committing",
                                              "Verify test coverage hasn't decreased" >>),
             block |-> FALSE])

\* handle_bash_commands of the template agents
template_handle_bash_commands(w, agent, tool_input) ==
  LET command == input_command(tool_input)
  IN  Return(w, command_analysis("Command analysis", <<>>,
                                 get_command_suggestions(agent, command)))

\* handle_general_guidance
handle_general_guidance(w, tool_name, tool_input) == Return(w, NoOp)

(***************************************************************************)
(* Message handlers: what an agent does with a drained envelope's data.    *)
(***************************************************************************)
\* the handler is entered
Ran(w, handler) == [w EXCEPT !.handled = Append(@, handler)]

\* a handler that passes the notification on to tester as a notification
backend_handle_file_change_from_team_forwarding(w, data) ==
  LET file_path == get(data, "file_path", <<>>)
  IN  IF is_backend_file(file_path)
      THEN send_message(w, BE, TE, "file_change_notification",
                        [file_path |-> file_path, status |-> "reviewed", agent |-> BE], "normal")
      ELSE w

\* BackendDeveloperAgent.handle_file_change_from_team
backend_handle_file_change_from_team(w, data) ==
  LET file_path == get(data, "file_path", <<>>)
  IN  IF is_backend_file(file_path)
      THEN send_message(w, BE, PM, "backend_review_complete",
                        [file_path |-> file_path, status |-> "reviewed", agent |-> BE], "normal")
      ELSE w

\* BackendDeveloperAgent.handle_api_change_request
handle_api_change_request(w, data) ==
  send_message(w, BE, get(data, "from", FE), "api_change_response",
               [status |-> "approved", suggestions |-> <<>>, concerns |-> <<>>], "normal")

\* BackendDeveloperAgent.handle_database_query_review
handle_database_query_review(w, data) ==
  LET query == get(data, "query", <<>>)
      suggestions ==
           When(In(<<"s","e","l","e","c","t"," ","*">>, lower(query)), "Avoid SELECT * - specify needed columns")
        \o When(~In(<<"w","h","e","r","e">>, lower(query)) /\ In(<<"s","e","l","e","c","t">>, lower(query)),
                "Consider adding WHERE clause to limit results")
  IN  send_message(w, BE, get(data, "from", DE), "query_review_response",
                   [suggestions |-> suggestions], "normal")

\* FrontendDeveloperAgent.handle_file_change_from_team
frontend_handle_file_change_from_team(w, data) ==
  LET file_path == get(data, "file_path", <<>>)
  IN  IF is_frontend_file(file_path)
      THEN send_message(w, FE, PM, "frontend_review_complete",
                        [file_path |-> file_path, status |-> "reviewed", agent |-> FE], "normal")
      ELSE w

\* FrontendDeveloperAgent.handle_task_from_team: self.state["active_tasks"] is
\* subscripted, not defaulted
handle_task_from_team(w, data) ==
  IF "active_tasks" \notin DOMAIN w.state[FE] THEN Raise(w, "KeyError: 'active_tasks'")
  ELSE [w EXCEPT !.state[FE].active_tasks =
          Append(@, [task_id |-> get(data, "task_id", "None"),
                     description |-> get(data, "description", <<>>),
                     assigned_at |-> get(data, "created_at", "None"),
                     status |-> "in_progress"])]

\* FrontendDeveloperAgent.handle_meeting_invitation_from_team
handle_meeting_invitation_from_team(w, data) ==
  LET topic == get(data, "topic", <<>>)
      frontend_keywords == << <<"c","o","m","p","o","n","e","n","t">>, <<"f","r","o","n","t","e","n","d">>, <<"u","i">>, <<"r","e","a","c","t">>, <<"v","u","e">>, <<"j","a","v","a","s","c","r","i","p","t">> >>
  IN  IF any_in(frontend_keywords, lower(topic))
      THEN send_message(w, FE, get(data, "organizer", PM), "meeting_accepted",
                        [meeting_id |-> get(data, "meeting_id", "None"), agent |-> FE,
                         response |-> "accepted"], "normal")
      ELSE w

\* TesterAgent.handle_file_change_from_team
tester_handle_file_change_from_team(w, data) ==
  LET file_path == get(data, "file_path", <<>>)
      test_file_path == get_corresponding_test_file(file_path)
  IN  IF is_testable_code(file_path)
      THEN send_message(w, TE, PM, "test_coverage_analysis",
                        [file_path |-> file_path, test_file_exists |-> exists(test_file_path),
                         recommendations |-> <<"Ensure adequate test coverage for changes">>,
                         agent |-> TE], "normal")
      ELSE w

\* TesterAgent.generate_test_recommendations
generate_test_recommendations(file_path, test_type) ==
  IF test_type = "unit"
    THEN << "Test individual functions in isolation", "Mock external dependencies",
            "Test edge cases and boundary conditions" >>
  ELSE IF test_type = "integration"
    THEN << "Test component interactions", "Test data flow between modules",
            "Test external service integrations" >>
  ELSE IF test_type = "e2e"
    THEN << "Test complete user workflows", "Test critical business paths",
            "Test cross-browser compatibility" >>
  ELSE <<>>

\* handle_test_request that answers to the coordinator whatever the payload says
handle_test_request_to_coordinator(w, data) ==
  LET file_path == get(data, "file_path", <<>>)
      test_type == get(data, "test_type", "unit")
  IN  send_message(w, TE, PM, "test_recommendations_response",
                   [file_path |-> file_path, test_type |-> test_type,
                    recommendations |-> generate_test_recommendations(file_path, test_type)],
                   "normal")

\* TesterAgent.handle_test_request
handle_test_request(w, data) ==
  LET file_path == get(data, "file_path", <<>>)
      test_type == get(data, "test_type", "unit")
  IN  send_message(w, TE, get(data, "from", PM), "test_recommendations_response",
                   [file_path |-> file_path, test_type |-> test_type,
                    recommendations |-> generate_test_recommendations(file_path, test_type)],
                   "normal")

\* TesterAgent.handle_coverage_analysis
handle_coverage_analysis(w, data) ==
  LET coverage_data == get(data, "coverage", <<>>)
      coverage_percentage == get(coverage_data, "percentage", 0)
      uncovered_lines == get(coverage_data, "uncovered_lines", <<>>)
      suggestions ==
           When(coverage_percentage < 80,
                <<"Coverage below 80% - consider adding more tests">>)
        \o When(uncovered_lines # <<>>,
                <<"Focus on uncovered lines:", Take(uncovered_lines, 5)>>)
  IN  send_message(w, TE, get(data, "from", PM), "coverage_analysis_response",
                   [suggestions |-> suggestions], "normal")

\* handle_file_change_from_team of the template agents
template_handle_file_change_from_team(w, agent, data) ==
  LET file_path == get(data, "file_path", <<>>)
  IN  IF is_relevant_file(agent, file_path)
      THEN send_message(w, agent, PM, review_complete_type(agent),
                        [file_path |-> file_path, status |-> "reviewed", agent |-> agent], "normal")
      ELSE w

\* handle_review_request of the template agents
handle_review_request(w, agent, data) ==
  LET file_path == get(data, "file_path", <<>>)
      review_type == get(data, "review_type", "general")
  IN  send_message(w, agent, get(data, "from", PM), "review_response",
                   [file_path |-> file_path, review_type |-> review_type,
                    recommendations |-> generate_recommendations(agent, file_path, review_type),
                    agent |-> agent], "normal")

(***************************************************************************)
(* Dispatch of the drained envelopes and process_hook_input.               *)
(***************************************************************************)
\* the message types the if/elif chain of process_team_messages compares with,
\* and the handler each one selects
handlers(agent) ==
  CASE agent = BE ->
         [ file_change_notification |-> "handle_file_change_from_team",
           api_change_request |-> "handle_api_change_request",
           database_query_review |-> "handle_database_query_review" ]
    [] agent = FE ->
         [ file_change_notification |-> "handle_file_change_from_team",
           task_assignment |-> "handle_task_from_team",
           meeting_invitation |-> "handle_meeting_invitation_from_team" ]
    [] agent = TE ->
         [ file_change_notification |-> "handle_file_change_from_team",
           test_request |-> "handle_test_request",
           coverage_analysis |-> "handle_coverage_analysis" ]
    [] agent \in TemplateAgents ->
         [ file_change_notification |-> "handle_file_change_from_team",
           review_request |-> "handle_review_request" ]

\* a chain that ends in a catch-all branch: every other type is handed to the
\* first handler
handler_of_catch_all(agent, type) ==
  IF type \in DOMAIN handlers(agent) THEN handlers(agent)[type]
  ELSE "handle_file_change_from_team"

\* the branch of the if/elif chain a type selects; the chain has no else
handler_of(agent, type) ==
  IF type \in DOMAIN handlers(agent) THEN handlers(agent)[type] ELSE "none"

\* the call `self.<handler>(message["data"])`
call_handler(w, agent, handler, data) ==
  CASE handler = "handle_file_change_from_team" ->
         (CASE agent = BE -> backend_handle_file_change_from_team(w, data)
            [] agent = FE -> frontend_handle_file_change_from_team(w, data)
            [] agent = TE -> tester_handle_file_change_from_team(w, data)
            [] OTHER -> template_handle_file_change_from_team(w, agent, data))
    [] handler = "handle_api_change_request" -> handle_api_change_request(w, data)
    [] handler = "handle_database_query_review" -> handle_database_query_review(w, data)
    [] handler = "handle_task_from_team" -> handle_task_from_team(w, data)
    [] handler = "handle_meeting_invitation_from_team" ->
         handle_meeting_invitation_from_team(w, data)
    [] handler = "handle_test_request" -> handle_test_request(w, data)
    [] handler = "handle_coverage_analysis" -> handle_coverage_analysis(w, data)
    [] handler = "handle_review_request" -> handle_review_request(w, agent, data)

\* the body of the loop of process_team_messages: message["type"] and
\* message["data"] are subscripted, a missing key is a KeyError
dispatch(w, agent, message) ==
  IF "type" \notin DOMAIN message THEN Raise(w, "KeyError: 'type'")
  ELSE LET handler == handler_of(agent, message.type)
       IN  IF handler = "none" THEN w
           ELSE IF "data" \notin DOMAIN message THEN Raise(w, "KeyError: 'data'")
           ELSE call_handler(Ran(w, handler), agent, handler, message.data)

RECURSIVE dispatch_each(_, _, _)
\* `for msg_data in processed_messages:` an exception leaves the loop
dispatch_each(w, agent, messages) ==
  IF messages = <<>> \/ w.raised THEN w
  ELSE dispatch_each(dispatch(w, agent, Head(messages)), agent, Tail(messages))

\* AgentMessageProcessor.process_pending_messages: the drain of the own mailbox
process_pending_messages(w, agent) ==
  LET d == drain(w.mailbox[agent])
  IN  [w EXCEPT !.mailbox[agent] = d.store, !.drained = d.messages]

\* process_team_messages that takes the first envelope of the batch before the
\* loop: an empty batch has none
process_team_messages_first(w, agent) ==
  LET drained == process_pending_messages(w, agent)
  IN  IF drained.drained = <<>> THEN Raise(drained, "IndexError")
      ELSE dispatch_each(drained, agent, drained.drained)

\* process_team_messages
process_team_messages(w, agent) ==
  LET drained == process_pending_messages(w, agent)
  IN  dispatch_each(drained, agent, drained.drained)

\* process_hook_input of the agents that drain their mailbox: the mailbox
\* first, then the event
agent_process_hook_input(w0, agent, tool_name, tool_input) ==
  LET w == process_team_messages(w0, agent)
  IN  IF w.raised THEN w
      ELSE IF tool_name \in {"Write", "Edit", "MultiEdit"} THEN
        (CASE agent = BE -> backend_handle_file_operations(w, tool_name, tool_input)
           [] agent = FE -> frontend_handle_file_operations(w, tool_name, tool_input)
           [] agent = TE -> tester_handle_file_operations(w, tool_name, tool_input)
           [] OTHER -> template_handle_file_operations(w, agent, tool_name, tool_input))
      ELSE IF tool_name = "Bash" THEN
        (CASE agent = BE -> backend_handle_bash_commands(w, tool_input)
           [] agent = FE -> frontend_handle_bash_commands(w, tool_input)
           [] agent = TE -> tester_handle_bash_commands(w, tool_input)
           [] OTHER -> template_handle_bash_commands(w, agent, tool_input))
      ELSE IF agent = TE /\ tool_name = "pre_commit"
        THEN handle_pre_commit_validation(w, tool_input)
      ELSE handle_general_guidance(w, tool_name, tool_input)

(***************************************************************************)
(* project-manager.py                                                      *)
(***************************************************************************)
\* BaseAgent.broadcast_to_team(type, data, priority="normal"): one copy of the
\* envelope to every other identity
broadcast_to_team(w, from, type, data, priority) ==
  LET team == <<PM, FE, BE, TE, UI, DE, DBG, RES, PERF, SEC, OPS>>
  IN  send_each(w, from, SelectSeq(team, LAMBDA a : a # from), type, data, priority)

\* BaseAgent.call_meeting(attendees, topic, urgency): the meeting is recorded and
\* every attendee is sent an invitation; the caller waits for no reply
call_meeting(w, organizer, attendees, topic, urgency) ==
  LET meeting == [meeting_id |-> w.clock, organizer |-> organizer,
                  attendees |-> attendees, topic |-> topic, urgency |-> urgency]
      w1 == [w EXCEPT !.meetings = Append(@, meeting)]
  IN  send_each(w1, organizer, attendees, "meeting_invitation",
                [meeting_id |-> meeting.meeting_id, topic |-> topic,
                 organizer |-> organizer, urgency |-> urgency], urgency)

\* Path.cwd()
cwd == <<"/","h","o","m","e","/","d","e","v","/","p","r","o","j","e","c","t">>

\* analyze_project_context
analyze_project_context ==
  LET base == IF exists(<<"p","a","c","k","a","g","e",".","j","s","o","n">>) THEN <<"N","o","d","e",".","j","s","/","J","a","v","a","S","c","r","i","p","t"," ","P","r","o","j","e","c","t">>
              ELSE IF exists(<<"r","e","q","u","i","r","e","m","e","n","t","s",".","t","x","t">>) \/ exists(<<"p","y","p","r","o","j","e","c","t",".","t","o","m","l">>)
                THEN <<"P","y","t","h","o","n"," ","P","r","o","j","e","c","t">>
              ELSE IF exists(<<"C","a","r","g","o",".","t","o","m","l">>) THEN <<"R","u","s","t"," ","P","r","o","j","e","c","t">>
              ELSE IF exists(<<"g","o",".","m","o","d">>) THEN <<"G","o"," ","P","r","o","j","e","c","t">>
              ELSE IF exists(<<"p","o","m",".","x","m","l">>) THEN <<"J","a","v","a"," ","P","r","o","j","e","c","t">>
              ELSE IF exists(<<".","c","s","p","r","o","j">>) THEN <<"C","#"," ","P","r","o","j","e","c","t">>
              ELSE <<"G","e","n","e","r","a","l"," ","D","e","v","e","l","o","p","m","e","n","t">>
      web == \E f \in {<<"i","n","d","e","x",".","h","t","m","l">>, <<"s","r","c","/","A","p","p",".","j","s">>, <<"s","r","c","/","A","p","p",".","t","s","x">>} : exists(f)
  IN  [name |-> path_name(cwd), path |-> cwd,
       type |-> IF web THEN base \o <<" ","(","W","e","b"," ","A","p","p","l","i","c","a","t","i","o","n",")">> ELSE base]

\* recommend_active_agents: list(set(recommended))
recommend_active_agents(project_info) ==
  LET project_type == lower(project_info.type)
  IN  {PM, TE, DBG, SEC}
      \cup (IF any_in(<< <<"w","e","b">>, <<"j","a","v","a","s","c","r","i","p","t">>, <<"n","o","d","e">> >>, project_type) THEN {FE, UI} ELSE {})
      \cup (IF any_in(<< <<"a","p","i">>, <<"b","a","c","k","e","n","d">>, <<"p","y","t","h","o","n">> >>, project_type) THEN {BE} ELSE {})
      \cup (IF In(<<"d","o","c","k","e","r">>, lower(cwd)) \/ exists(<<"D","o","c","k","e","r","f","i","l","e">>) THEN {OPS} ELSE {})

\* handle_session_start
handle_session_start(w, tool_input) ==
  LET project_info == analyze_project_context
      w1 == broadcast_to_team(w, PM, "session_started",
              [project_info |-> project_info, coordinator |-> PM, session_id |-> w.clock],
              "normal")
      recommended_agents == recommend_active_agents(project_info)
  IN  Return(w1, [message |-> <<Line("header", <<"Session started for", project_info.name>>)>>
                              \o When(recommended_agents # {},
                                      Line("team", recommended_agents)),
                  block |-> FALSE])

\* handle_file_changes with the coordinator itself added to the notified agents
handle_file_changes_and_self(w, tool_name, tool_input) ==
  LET file_path == input_file_path(tool_input)
      relevant_agents == determine_relevant_agents(file_path) \o <<PM>>
      w1 == send_each(w, PM, relevant_agents, "file_change_notification",
                      [file_path |-> file_path, tool_name |-> tool_name,
                       tool_input |-> tool_input, coordinator |-> PM], "normal")
  IN  IF file_path = <<>> THEN Return(w, NoOp)
      ELSE IF is_significant_change(file_path, tool_name)
        THEN Return(call_meeting(w1, PM, relevant_agents,
                                 <<"F","i","l","e"," ","c","h","a","n","g","e"," ","c","o","o","r","d","i","n","a","t","i","o","n",":"," ">> \o path_name(file_path),
                                 "normal"),
                    [message |-> <<Line("header", <<"Coordinating", path_name(file_path),
                                                    "changes with", relevant_agents>>)>>,
                     block |-> FALSE])
      ELSE Return(w1, NoOp)

\* handle_file_changes
handle_file_changes(w, tool_name, tool_input) ==
  LET file_path == input_file_path(tool_input)
      relevant_agents == determine_relevant_agents(file_path)
      w1 == send_each(w, PM, relevant_agents, "file_change_notification",
                      [file_path |-> file_path, tool_name |-> tool_name,
                       tool_input |-> tool_input, coordinator |-> PM], "normal")
  IN  IF file_path = <<>> THEN Return(w, NoOp)
      ELSE IF is_significant_change(file_path, tool_name)
        THEN Return(call_meeting(w1, PM, relevant_agents,
                                 <<"F","i","l","e"," ","c","h","a","n","g","e"," ","c","o","o","r","d","i","n","a","t","i","o","n",":"," ">> \o path_name(file_path),
                                 "normal"),
                    [message |-> <<Line("header", <<"Coordinating", path_name(file_path),
                                                    "changes with", relevant_agents>>)>>,
                     block |-> FALSE])
      ELSE Return(w1, NoOp)

\* handle_git_operations
handle_git_operations(w, tool_input) ==
  LET command == input_command(tool_input)
  IN  IF any_in(<< <<"m","e","r","g","e">>, <<"r","e","b","a","s","e">>, <<"r","e","s","e","t"," ","-","-","h","a","r","d">>, <<"p","u","s","h"," ","o","r","i","g","i","n">> >>, command)
      THEN Return(broadcast_to_team(w, PM, "git_operation_alert",
                    [command |-> command, coordinator |-> PM, requires_attention |-> TRUE],
                    "high"),
                  [message |-> <<Line("header",
                                      <<"Major git operation detected - notifying team about:",
                                        command>>)>>,
                   block |-> FALSE])
      ELSE Return(w, NoOp)

\* `if len(...) > 100:` and `[-100:]`
MaxActivities == 100

\* log_project_activity that keeps the first 100 activities (`[:100]`)
log_project_activity_oldest(w, tool_name, tool_input) ==
  LET activity == [timestamp |-> w.clock, tool_name |-> tool_name,
                   activity_type |-> "development", coordinator |-> PM]
      project_activities == Append(get(w.state[PM], "project_activities", <<>>), activity)
      kept == IF Len(project_activities) > MaxActivities
              THEN SubSeq(project_activities, 1, MaxActivities)
              ELSE project_activities
  IN  [w EXCEPT !.state[PM] =
         [k \in DOMAIN @ \cup {"project_activities"} |->
            IF k = "project_activities" THEN kept ELSE @[k]],
                !.logged = Append(@, activity)]

\* log_project_activity
log_project_activity(w, tool_name, tool_input) ==
  LET activity == [timestamp |-> w.clock, tool_name |-> tool_name,
                   activity_type |-> "development", coordinator |-> PM]
      project_activities == Append(get(w.state[PM], "project_activities", <<>>), activity)
      kept == IF Len(project_activities) > MaxActivities
              THEN SubSeq(project_activities, Len(project_activities) - MaxActivities + 1,
                          Len(project_activities))
              ELSE project_activities
  IN  [w EXCEPT !.state[PM] =
         [k \in DOMAIN @ \cup {"project_activities"} |->
            IF k = "project_activities" THEN kept ELSE @[k]],
                !.logged = Append(@, activity)]

\* handle_general_coordination with the length of the activity log in the message
handle_general_coordination_reporting(w, tool_name, tool_input) ==
  Return(log_project_activity(w, tool_name, tool_input),
         [message |-> <<Line("header",
                             <<"activities",
                               Len(get(w.state[PM], "project_activities", <<>>))>>)>>,
          block |-> FALSE])

\* handle_general_coordination
handle_general_coordination(w, tool_name, tool_input) ==
  Return(log_project_activity(w, tool_name, tool_input), NoOp)

\* the characters of a tool name
tool_name_text ==
  [ Write |-> <<"W","r","i","t","e">>, Edit |-> <<"E","d","i","t">>, MultiEdit |-> <<"M","u","l","t","i","E","d","i","t">>,
    Bash |-> <<"B","a","s","h">>, Read |-> <<"R","e","a","d">>, session_start |-> <<"s","e","s","s","i","o","n","_","s","t","a","r","t">>,
    pre_commit |-> <<"p","r","e","_","c","o","m","m","i","t">> ]

\* ProjectManagerAgent.process_hook_input: the mailbox is not drained
project_manager_process_hook_input(w, tool_name, tool_input) ==
  IF tool_name = "session_start" THEN handle_session_start(w, tool_input)
  ELSE IF \/ In(<<"f","i","l","e">>, lower(tool_name_text[tool_name]))
          \/ tool_name \in {"Write", "Edit", "MultiEdit"}
    THEN handle_file_changes(w, tool_name, tool_input)
  ELSE IF tool_name = "Bash" /\ startswith(input_command(tool_input), <<"g","i","t">>)
    THEN handle_git_operations(w, tool_input)
  ELSE handle_general_coordination(w, tool_name, tool_input)

\* process_hook_input of the agent that the host invokes
process_hook_input(w, agent, tool_name, tool_input) ==
  IF agent = PM THEN project_manager_process_hook_input(w, tool_name, tool_input)
  ELSE agent_process_hook_input(w, agent, tool_name, tool_input)

(***************************************************************************)
(* The hook events and the file contents the host delivers.  Each content  *)
(* carries the answers the regular expressions of the sources give on it.  *)
(***************************************************************************)
\* the file contents of the events
Contents ==
  [
    \* password = "abc123"
    Secret |->
      Content(<<"p","a","s","s","w","o","r","d"," ","="," ","dquote","a","b","c","1","2","3","dquote">>,
              {"secret_assignment"},
              [console_log |-> 0, loose_equality |-> 0],
              <<>>),
    \* x = 1
    Plain |->
      Content(<<"x"," ","="," ","1">>,
              {},
              [console_log |-> 0, loose_equality |-> 0],
              <<>>),
    \* for r in requests.get(req.token): query(r)
    Requests |->
      Content(<<"f","o","r"," ","r"," ","i","n"," ","r","e","q","u","e","s","t","s",".","g","e","t","(","r","e","q",".","t","o","k","e","n",")",":"," ","q","u","e","r","y","(","r",")">>,
              {},
              [console_log |-> 0, loose_equality |-> 0],
              <<>>),
    \* xs.map(f) => <b>
    Map |->
      Content(<<"x","s",".","m","a","p","(","f",")"," ","=",">"," ","<","b",">">>,
              {"map_to_element"},
              [console_log |-> 0, loose_equality |-> 0],
              <<>>),
    \* var a = useState(0); useEffect(f); console.log(a == b); <img>
    Hooks |->
      Content(<<"v","a","r"," ","a"," ","="," ","u","s","e","S","t","a","t","e","(","0",")",";"," ","u","s","e","E","f","f","e","c","t","(","f",")",";"," ","c","o","n","s","o","l","e",".","l","o","g","(","a"," ","=","="," ","b",")",";"," ","<","i","m","g",">">>,
              {"useState_call", "var_declaration"},
              [console_log |-> 1, loose_equality |-> 1],
              <<>>),
    \* def test_add(): assert add(1, 2) == 3
    Test |->
      Content(<<"d","e","f"," ","t","e","s","t","_","a","d","d","(",")",":"," ","a","s","s","e","r","t"," ","a","d","d","(","1",","," ","2",")"," ","=","="," ","3">>,
              {},
              [console_log |-> 0, loose_equality |-> 1],
              <<"test_add">>),
    \* def add(a, b): return a + b
    Add |->
      Content(<<"d","e","f"," ","a","d","d","(","a",","," ","b",")",":"," ","r","e","t","u","r","n"," ","a"," ","+"," ","b">>,
              {},
              [console_log |-> 0, loose_equality |-> 0],
              <<"add">>),
    \* for k in find(x): password = "abc123"
    SecretLoop |->
      Content(<<"f","o","r"," ","k"," ","i","n"," ","f","i","n","d","(","x",")",":"," ","p","a","s","s","w","o","r","d"," ","="," ","dquote","a","b","c","1","2","3","dquote">>,
              {"secret_assignment"},
              [console_log |-> 0, loose_equality |-> 0],
              <<>>),
    \* xs.map(f) => <b style={{c}}>
    StyledMap |->
      Content(<<"x","s",".","m","a","p","(","f",")"," ","=",">"," ","<","b"," ","s","t","y","l","e","=","{","{","c","}","}",">">>,
              {"map_to_element", "inline_style"},
              [console_log |-> 0, loose_equality |-> 0],
              <<>>),
    \* <b style={{c}}>
    Styled |->
      Content(<<"<","b"," ","s","t","y","l","e","=","{","{","c","}","}",">">>,
              {"inline_style"},
              [console_log |-> 0, loose_equality |-> 0],
              <<>>) ]

\* a host event {tool_name, tool_input}
Event(tool_name, tool_input) == [tool_name |-> tool_name, tool_input |-> tool_input]

\* the hook events the host delivers: file operations, commands and the rest
Events ==
  { Event("Write", [file_path |-> <<"a","p","i","/","u","s","e","r","s",".","p","y">>, content |-> Contents.Secret]),
    Event("Edit", [file_path |-> <<"a","p","i","/","u","s","e","r","s",".","p","y">>, new_string |-> Contents.Requests]),
    Event("Edit", [file_path |-> <<"s","r","c","/","A","p","p",".","j","s","x">>, new_string |-> Contents.Map]),
    Event("Write", [file_path |-> <<"s","r","c","/","A","p","p",".","j","s","x">>, content |-> Contents.Plain]),
    Event("Write", [path |-> <<"s","r","c","/","A","p","p",".","j","s","x">>, content |-> Contents.Hooks]),
    Event("Write", [file_path |-> <<"t","e","s","t","s","/","t","e","s","t","_","c","a","l","c",".","p","y">>, content |-> Contents.Plain]),
    Event("Edit", [file_path |-> <<"t","e","s","t","s","/","t","e","s","t","_","c","a","l","c",".","p","y">>, new_string |-> Contents.Test]),
    Event("Write", [file_path |-> <<"l","i","b","/","c","a","l","c",".","p","y">>, content |-> Contents.Add]),
    Event("MultiEdit", [file_path |-> <<"d","b","/","s","c","h","e","m","a",".","s","q","l">>, content |-> Contents.Plain]),
    Event("Write", [content |-> Contents.Plain]),
    Event("Bash", [command |-> <<"g","i","t"," ","p","u","s","h"," ","o","r","i","g","i","n"," ","m","a","i","n">>]),
    Event("Bash", [command |-> <<"p","y","t","e","s","t"," ","t","e","s","t","s">>]),
    Event("Bash", [command |-> <<"n","p","m"," ","i","n","s","t","a","l","l"," ","l","o","d","a","s","h">>]),
    Event("Bash", [command |-> <<"p","s","q","l"," ","-","c"," ","'","s","e","l","e","c","t"," ","i","d"," ","f","r","o","m"," ","u","s","e","r","s","'">>]),
    Event("Read", [file_path |-> <<"R","E","A","D","M","E",".","m","d">>]),
    Event("session_start", <<>>),
    Event("pre_commit", <<>>) }

\* the envelopes other processes write into the mailboxes: requests of the
\* agents that have no runtime here, an envelope of a type no chain knows,
\* envelopes with a missing field, and a notification of a project-manager
\* process that runs at the same time
PeerEnvelopes ==
  { [from |-> SEC, to |-> TE, type |-> "test_request", priority |-> "normal",
     data |-> [file_path |-> <<"l","i","b","/","c","a","l","c",".","p","y">>, test_type |-> "unit", from |-> SEC]],
    [from |-> OPS, to |-> TE, type |-> "coverage_analysis", priority |-> "normal",
     data |-> [coverage |-> [percentage |-> 50, uncovered_lines |-> <<3, 7>>]]],
    [from |-> SEC, to |-> FE, type |-> "task_assignment", priority |-> "high",
     data |-> [task_id |-> 1, description |-> <<"f","i","x"," ","l","o","g","i","n"," ","f","o","r","m">>]],
    [from |-> OPS, to |-> FE, type |-> "meeting_invitation", priority |-> "normal",
     data |-> [meeting_id |-> 7, topic |-> <<"F","r","o","n","t","e","n","d"," ","r","e","l","e","a","s","e">>]],
    [from |-> OPS, to |-> BE, type |-> "api_change_request", priority |-> "normal",
     data |-> [api_change |-> <<"G","E","T"," ","/","u","s","e","r","s">>, from |-> OPS]],
    [from |-> OPS, to |-> BE, type |-> "database_query_review", priority |-> "normal",
     data |-> [query |-> <<"S","E","L","E","C","T"," ","*"," ","F","R","O","M"," ","u","s","e","r","s">>]],
    [from |-> SEC, to |-> DBG, type |-> "review_request", priority |-> "normal",
     data |-> [file_path |-> <<"a","p","i","/","u","s","e","r","s",".","p","y">>, from |-> SEC]],
    [from |-> OPS, to |-> TE, priority |-> "normal",
     data |-> [file_path |-> <<"l","i","b","/","c","a","l","c",".","p","y">>]],
    [from |-> OPS, to |-> BE, type |-> "file_change_notification", priority |-> "normal"],
    [from |-> PM, to |-> TE, type |-> "file_change_notification", priority |-> "normal",
     data |-> [file_path |-> <<"l","i","b","/","c","a","l","c",".","p","y">>, tool_name |-> "Edit", coordinator |-> PM]] }
  \cup { [from |-> OPS, to |-> a, type |-> "status_update", priority |-> "normal",
          data |-> [file_path |-> <<"s","r","c","/","a","p","i","/","u","s","e","r","s",".","p","y">>]] : a \in {TE, DBG, BE, FE, PM} }

(***************************************************************************)
(* Specification Spec: the host delivers hook events to the agent runtimes *)
(* and peers write envelopes, in any order.                                *)
(***************************************************************************)
MaxSteps == 2

\* the world an invocation starts in: the stores as they are, nothing done yet
NewWorld(stores) ==
  [mailbox |-> stores.mailbox, clock |-> stores.clock, state |-> stores.state,
   sent |-> <<>>, handled |-> <<>>, meetings |-> <<>>, drained |-> <<>>, logged |-> <<>>,
   raised |-> FALSE, error |-> "", decision |-> NoOp]

Stores == [mailbox |-> mailbox, clock |-> clock, state |-> agent_state]

\* the persisted state of the agents after construction: the constructors create
\* their own entries; "active_tasks" is not among those of frontend-developer
InitialStates ==
  { [a \in Runtimes |-> IF a = FE THEN fe ELSE <<>>] : fe \in {<<>>, [active_tasks |-> <<>>]} }

Init ==
  /\ mailbox = [a \in Agents |-> <<>>]
  /\ clock = 0
  /\ agent_state \in InitialStates
  /\ last = [op |-> "none"]
  /\ steps = MaxSteps
  /\ unread = <<>> /\ buf = <<>> /\ returned = <<>> /\ route = NoRoute /\ hook = <<>>
  /\ activities = <<>>

\* process_hook_input runs to completion on the stores as they are; what it
\* leaves in the stores is what the next invocation finds
Run(agent, event) ==
  /\ \E w \in {process_hook_input(NewWorld(Stores), agent, event.tool_name,
                                  event.tool_input)} :
       /\ mailbox' = w.mailbox
       /\ clock' = w.clock
       /\ agent_state' = w.state
       /\ activities' = activities \o w.logged
       /\ last' = [op |-> "invoke", agent |-> agent, event |-> event,
                   before |-> Stores,
                   drained |-> w.drained, sent |-> w.sent, handled |-> w.handled,
                   meetings |-> w.meetings, raised |-> w.raised, error |-> w.error,
                   decision |-> w.decision]
  /\ UNCHANGED <<unread, buf, returned, route, hook>>

\* the host runs one agent on one event
Invoke(agent, event) ==
  /\ steps > 0
  /\ Run(agent, event)
  /\ steps' = steps - 1

\* another process appends an envelope to a mailbox
PeerSend(envelope) ==
  /\ steps > 0
  /\ LET e == [k \in DOMAIN envelope \cup {"created_at"} |->
                 IF k = "created_at" THEN clock ELSE envelope[k]]
     IN  /\ mailbox' = [mailbox EXCEPT ![envelope.to] = enqueue(@, e)]
         /\ last' = [op |-> "peer", envelope |-> e]
  /\ clock' = clock + 1
  /\ steps' = steps - 1
  /\ UNCHANGED <<agent_state, unread, buf, returned, route, hook, activities>>

Next ==
  \/ \E agent \in Runtimes, event \in Events : Invoke(agent, event)
  \/ \E envelope \in PeerEnvelopes : PeerSend(envelope)

Spec == Init /\ [][Next]_vars

(***************************************************************************)
(* Properties of one invocation, read off `last`.                          *)
(***************************************************************************)
Invoked == last.op = "invoke"

last_path == input_file_path(last.event.tool_input)

\* the last step ran an agent on a Write/Edit/MultiEdit event that names a file
FileEvent ==
  /\ Invoked
  /\ last.event.tool_name \in FileTools
  /\ last_path # <<>>

\* the finding set of the last invocation's file-operation analysis
last_findings ==
  LET content == input_content(last.event.tool_input)
      tool_name == last.event.tool_name
  IN  CASE last.agent = BE /\ is_backend_file(last_path) ->
             analyze_backend_code(last_path, content, tool_name)
        [] last.agent = FE /\ is_frontend_file(last_path) ->
             analyze_frontend_code(last_path, content, tool_name)
        [] last.agent = TE /\ is_test_file(last_path) ->
             analyze_test_code(last_path, content, tool_name)
        [] last.agent \in TemplateAgents /\ is_relevant_file(last.agent, last_path) ->
             analyze_content(last.agent, last_path, content, tool_name)
        [] OTHER -> <<>>

\* how many lines of the returned message are the message of one of the findings
\* of the given severity
Listed(findings, severity) ==
  Cardinality({i \in 1..Len(last.decision.message) :
                 \E k \in 1..Len(findings) :
                    /\ findings[k].severity = severity
                    /\ findings[k].message = last.decision.message[i].text})

\* what the last invocation appended to the mailbox of an agent other than the
\* one that ran
Appended(a) == SubSeq(mailbox[a], Len(last.before.mailbox[a]) + 1, Len(mailbox[a]))

\* C3: process_hook_input never raises; every invocation, whatever the event and
\* whatever its mailbox holds, ends with a returned decision.
C3_NeverRaises == Invoked => ~last.raised

C5_BlockNotifiesCoordinatorAndSecurity ==
  Invoked /\ ~last.raised /\ last.decision.block =>
    LET critical == BySeverity(last_findings, "critical")
        tagged == Tagged(critical, <<"s","e","c","u","r","i","t","y">>)
        to_pm == SelectSeq(last.sent,
                           LAMBDA e : e.to = PM /\ e.type = "critical_issue_found")
        to_sec == SelectSeq(last.sent, LAMBDA e : e.to = SEC)
    IN  /\ Len(to_pm) = 1
        /\ to_pm[1].priority = "high"
        /\ to_pm[1].data.file_path = last_path
        /\ to_pm[1].data.issues = critical
        /\ tagged # <<>> =>
             /\ Len(to_sec) = 1
             /\ to_sec[1].priority = "high"
             /\ "security_issues" \in DOMAIN to_sec[1].data
             /\ to_sec[1].data.security_issues = tagged

\* C6: every agent, project-manager included, drains its mailbox at the start
\* of an invocation: what was in its mailbox before is what it drained, and none
\* of it is in the mailbox afterwards.
C6_EveryAgentDrainsAtStart ==
  Invoked =>
    LET own == last.before.mailbox[last.agent]
    IN  /\ last.drained = own
        /\ \A i \in 1..Len(own) : \A j \in 1..Len(mailbox[last.agent]) :
             mailbox[last.agent][j].created_at # own[i].created_at

\* C7: on a file event with a path project-manager appends exactly one
\* file_change_notification (priority normal, with the path and the tool name) to
\* the mailbox of each agent whose routing rule matches the path and nothing to
\* any other mailbox, its own included.
C7_OneNotificationPerRelevantAgent ==
  FileEvent /\ last.agent = PM =>
    \A a \in Agents :
      LET notes == SelectSeq(Appended(a), LAMBDA e : e.type = "file_change_notification")
          routed == a \in RoutedAgents /\ any_in(routing_rule(a), lower(last_path))
      IN  /\ Len(notes) = (IF routed THEN 1 ELSE 0)
          /\ routed =>
               /\ notes[1].from = PM
               /\ notes[1].priority = "normal"
               /\ notes[1].data.file_path = last_path
               /\ notes[1].data.tool_name = last.event.tool_name
          /\ ~routed => Appended(a) = <<>>

\* C7 witness: a change to tests/test_calc.py was fanned out to the two agents
\* it is routed to
C7_Witness ==
  /\ FileEvent /\ last.agent = PM
  /\ {a \in RoutedAgents : any_in(routing_rule(a), lower(last_path))} = {BE, TE}
  /\ Len(last.sent) = 2
  /\ Len(mailbox[BE]) = 1 /\ Len(mailbox[TE]) = 1

\* the agents the last invocation sent an envelope of a type to, in send order
Recipients(type) ==
  LET es == SelectSeq(last.sent, LAMBDA e : e.type = type)
  IN  [i \in 1..Len(es) |-> es[i].to]

\* C9: project-manager calls one meeting exactly when the change is significant
\* (a recognised name in the path, or a Write under src/, lib/, api/ or
\* components/); its attendees are the agents just notified, every invitation
\* follows every notification, and the decision never blocks; otherwise there is
\* no meeting and the message is empty.
C9_MeetingIffSignificant ==
  FileEvent /\ last.agent = PM =>
    LET significant ==
          \/ any_in(significant_files, lower(last_path))
          \/ /\ last.event.tool_name = "Write"
             /\ any_in(significant_dirs, lower(last_path))
        notified == Recipients("file_change_notification")
    IN  /\ ~last.raised
        /\ ~last.decision.block
        /\ significant =>
             /\ Len(last.meetings) = 1
             /\ last.meetings[1].attendees = notified
             /\ Recipients("meeting_invitation") = notified
             /\ \A i, j \in 1..Len(last.sent) :
                  /\ last.sent[i].type = "file_change_notification"
                  /\ last.sent[j].type = "meeting_invitation"
                  => i < j
             /\ last.drained = <<>>
             /\ last.decision.message # <<>>
        /\ ~significant =>
             /\ last.meetings = <<>>
             /\ Recipients("meeting_invitation") = <<>>
             /\ last.decision.message = <<>>

\* C9 witness: a Write under api/ made project-manager call a meeting with the
\* agent it notified
C9_Witness ==
  /\ FileEvent /\ last.agent = PM
  /\ last.event.tool_name = "Write"
  /\ ~any_in(significant_files, lower(last_path))
  /\ Len(last.meetings) = 1
  /\ last.meetings[1].attendees = <<BE>>

\* C10: an envelope of a type the draining agent has no handler for is consumed
\* without effect: it is gone from the mailbox and the invocation runs the same
\* handlers, sends the same envelopes and returns the same decision as it does
\* without that envelope in the mailbox.
C10_UnknownTypeIsIgnored ==
  Invoked /\ last.agent # PM =>
    LET own == last.before.mailbox[last.agent]
        unknown(m) == "type" \in DOMAIN m /\ m.type \notin DOMAIN handlers(last.agent)
        without == [last.before EXCEPT
                      !.mailbox[last.agent] = SelectSeq(own, LAMBDA m : ~unknown(m))]
        alone == process_hook_input(NewWorld(without), last.agent,
                                    last.event.tool_name, last.event.tool_input)
    IN  (\E i \in 1..Len(own) : unknown(own[i])) =>
          /\ \A i \in 1..Len(own) : \A j \in 1..Len(mailbox[last.agent]) :
               unknown(own[i]) => mailbox[last.agent][j].created_at # own[i].created_at
          /\ last.handled = alone.handled
          /\ last.sent = alone.sent
          /\ last.raised = alone.raised
          /\ ~last.raised => last.decision = alone.decision
          /\ (\A i \in 1..Len(own) : unknown(own[i])) =>
               ~last.raised /\ last.handled = <<>>

\* C10 witness: an agent drained a status_update, a type it has no handler for,
\* and returned a decision with a message for the event
C10_Witness ==
  /\ Invoked /\ last.agent # PM
  /\ Len(last.drained) = 1
  /\ "type" \in DOMAIN last.drained[1]
  /\ last.drained[1].type = "status_update"
  /\ ~last.raised
  /\ last.decision.message # <<>>

(***************************************************************************)
(* Specification SpecTester: the tester alone, over more steps; its        *)
(* mailbox fills with the envelopes addressed to it and the host runs it   *)
(* on any event.                                                           *)
(***************************************************************************)
MaxTesterSteps == 3

TesterInit ==
  /\ mailbox = [a \in Agents |-> <<>>]
  /\ clock = 0
  /\ agent_state = [a \in Runtimes |-> <<>>]
  /\ last = [op |-> "none"]
  /\ steps = MaxTesterSteps
  /\ unread = <<>> /\ buf = <<>> /\ returned = <<>> /\ route = NoRoute /\ hook = <<>>
  /\ activities = <<>>

TesterNext ==
  \/ \E event \in Events : Invoke(TE, event)
  \/ \E envelope \in {e \in PeerEnvelopes : e.to = TE} : PeerSend(envelope)

SpecTester == TesterInit /\ [][TesterNext]_vars

\* the file_change_notification envelopes of a sequence that name a testable
\* path that is not a test file
TestableNotifications(envelopes) ==
  SelectSeq(envelopes,
            LAMBDA e : /\ "type" \in DOMAIN e /\ e.type = "file_change_notification"
                       /\ "data" \in DOMAIN e
                       /\ is_testable_code(get(e.data, "file_path", <<>>)))

SecretWrite ==
  /\ Invoked
  /\ last.agent = BE
  /\ last.event = Event("Write", [file_path |-> <<"a","p","i","/","u","s","e","r","s",".","p","y">>, content |-> Contents.Secret])
  /\ ~last.raised

\* the envelopes the last invocation sent to an agent with high priority
SentHigh(to) ==
  {k \in 1..Len(last.sent) :
     /\ last.sent[k].from = last.agent
     /\ last.sent[k].to = to
     /\ last.sent[k].priority = "high"}

\* C13: for Write api/users.py with content password = "abc123" the
\* backend-developer runtime finds a critical security_hardcoded_secrets finding,
\* returns block: true with the finding's message as a line of the decision
\* message, and has enqueued a high-priority envelope to project-manager and one
\* to security-engineer, both of which are in the mailboxes when it returns.
C13_SecretWriteBlocksAndNotifies ==
  SecretWrite =>
    \A findings \in {last_findings} :
      \E k \in 1..Len(findings) :
        /\ findings[k].type = <<"s","e","c","u","r","i","t","y","_","h","a","r","d","c","o","d","e","d","_","s","e","c","r","e","t","s">>
        /\ findings[k].severity = "critical"
        /\ last.decision.block
        /\ \E i \in 1..Len(last.decision.message) :
             last.decision.message[i].text = findings[k].message
        /\ \E p \in SentHigh(PM) :
             \E j \in 1..Len(mailbox[PM]) : mailbox[PM][j] = last.sent[p]
        /\ \E s \in SentHigh(SEC) :
             /\ \E j \in 1..Len(mailbox[SEC]) : mailbox[SEC][j] = last.sent[s]
             /\ last.sent[s].data.security_issues = <<findings[k]>>

\* C13 witness: the scenario ran on an empty mailbox and sent exactly the two
\* envelopes
C13_Witness ==
  /\ SecretWrite
  /\ last.before.mailbox[BE] = <<>>
  /\ last.decision.block
  /\ Len(last.sent) = 2
  /\ SentHigh(PM) = {1}
  /\ SentHigh(SEC) = {2}

(***************************************************************************)
(* A file of the agent's domain with nothing to report.                    *)
(***************************************************************************)
\* the last step ran a specialist on a Write/Edit/MultiEdit event for a file of
\* its domain, with no pending envelope, and its analysis found nothing
CleanFileInDomain ==
  /\ FileEvent /\ ~last.raised
  /\ last.before.mailbox[last.agent] = <<>>
  /\ \/ last.agent = BE /\ is_backend_file(last_path)
     \/ last.agent = FE /\ is_frontend_file(last_path)
     \/ last.agent = TE /\ is_test_file(last_path)
     \/ last.agent = TE /\ is_testable_code(last_path)
     \/ last.agent \in TemplateAgents /\ is_relevant_file(last.agent, last_path)
  /\ last_findings = <<>>
  /\ last.agent = TE /\ is_testable_code(last_path) =>
       analyze_testability(last_path, input_content(last.event.tool_input)) = <<>>

\* C14: for every agent and every Write/Edit/MultiEdit event on a file of the
\* agent's domain whose analysis yields no finding, the decision does not block,
\* its message is non-empty and is the positive affirmation that names the
\* file's base name, and no envelope is sent.
C14_CleanFileIsAffirmed ==
  CleanFileInDomain =>
    /\ ~last.decision.block
    /\ last.decision.message # <<>>
    /\ \E i \in 1..Len(last.decision.message) :
         /\ last.decision.message[i].section = "affirmation"
         /\ last.decision.message[i].text[1] = path_name(last_path)
    /\ last.sent = <<>>

(***************************************************************************)
(* The drain of a mailbox nothing was ever enqueued to.                    *)
(***************************************************************************)
\* every enqueue takes one stamp of the clock: when the mailboxes of the other
\* identities hold as many envelopes as stamps were taken, none went to `agent`
NeverEnqueued(stores, agent) ==
  Cardinality({p \in (Agents \ {agent}) \X (1..stores.clock) :
                 p[2] <= Len(stores.mailbox[p[1]])}) = stores.clock

\* what was sent: the recipient, type and priority of each envelope, in order
Addressed(sent) ==
  [k \in 1..Len(sent) |->
     [to |-> sent[k].to, type |-> sent[k].type, priority |-> sent[k].priority]]

\* C15: when an agent runs and nothing was ever enqueued to its identity, the
\* drain returns the empty sequence and nothing raises: no handler runs, and the
\* decision and the envelopes sent (recipient, type, priority) are those of the
\* analysis of the tool event alone, as on stores nothing was ever written to.
C15_DrainOfNewIdentityIsEmpty ==
  Invoked /\ NeverEnqueued(last.before, last.agent) =>
    /\ last.drained = <<>>
    /\ ~last.raised
    /\ last.handled = <<>>
    /\ mailbox[last.agent] = <<>>
    /\ \A fresh \in {process_hook_input(
                       NewWorld([mailbox |-> [a \in Agents |-> <<>>], clock |-> 0,
                                 state |-> last.before.state]),
                       last.agent, last.event.tool_name, last.event.tool_input)} :
         /\ last.decision = fresh.decision
         /\ Addressed(last.sent) = Addressed(fresh.sent)

\* C15 witness: backend-developer ran on a mailbox nothing was enqueued to while
\* another identity's mailbox held an envelope, and its analysis of the event
\* blocked and notified
C15_Witness ==
  /\ Invoked /\ last.agent = BE
  /\ NeverEnqueued(last.before, BE)
  /\ last.before.clock > 0
  /\ last.drained = <<>> /\ last.handled = <<>>
  /\ last.decision.block
  /\ Len(last.sent) = 2

(***************************************************************************)
(* The Heimdall memory hooks of src/hooks/heimdall: one process per hook   *)
(* event, which asks the external CLI whether the memory is ready, reads   *)
(* its event from standard input and stores (or, at session start,         *)
(* queries) memories through the CLI.                                      *)
(***************************************************************************)
\* a JSON text with the answer of json.loads on it: not JSON at all, a value that
\* is not an object (the list [1]), or an object with its members
NotJson == [valid |-> FALSE, object |-> FALSE, value |-> <<>>]
JsonList == [valid |-> TRUE, object |-> FALSE, value |-> <<>>]
JsonObject(value) == [valid |-> TRUE, object |-> TRUE, value |-> value]

\* what subprocess.run(args, capture_output=True, text=True, timeout=t) does: it
\* raises (no such binary, timeout, another OSError) or returns the exit status,
\* stdout and stderr of the CLI
RunResults ==
  { [raises |-> e, returncode |-> 0, stdout |-> NotJson, stderr |-> ""] :
      e \in {"FileNotFoundError", "TimeoutExpired", "PermissionError"} }
  \cup
  { [raises |-> "none", returncode |-> 1, stdout |-> NotJson, stderr |-> e] :
      e \in {"", "store failed"} }
  \cup
  { [raises |-> "none", returncode |-> 0, stdout |-> out, stderr |-> ""] :
      out \in { NotJson, JsonList, JsonObject(<<>>),
                JsonObject([operational |-> FALSE]),
                JsonObject([operational |-> TRUE, memoryId |-> "m1",
                            memories |-> <<[content |-> "lesson"]>>]) } }

\* store_memory: one `memory store` call of the CLI, given what the call did
store_memory(run) ==
  IF run.raises = "TimeoutExpired"
    THEN [success |-> FALSE, error |-> "Timeout storing memory"]
  ELSE IF run.raises = "FileNotFoundError"
    THEN [success |-> FALSE, error |-> "aes-bizzy CLI not found"]
  ELSE IF run.raises # "none"
    THEN [success |-> FALSE, error |-> run.raises]
  ELSE IF run.returncode = 0 THEN
    IF ~run.stdout.valid THEN [success |-> TRUE, memory_id |-> "None"]
    \* data.get on a value that is no dict: AttributeError, caught by the outer except
    ELSE IF ~run.stdout.object THEN [success |-> FALSE, error |-> "AttributeError"]
    ELSE [success |-> TRUE, memory_id |-> get(run.stdout.value, "memoryId", "None")]
  ELSE [success |-> FALSE,
        error |-> IF run.stderr # "" THEN run.stderr ELSE "Unknown error"]

\* query_memories: one `memory search` call of the CLI, given what the call did
query_memories(run) ==
  IF run.raises = "TimeoutExpired"
    THEN [success |-> FALSE, error |-> "Timeout querying memories", memories |-> <<>>]
  ELSE IF run.raises = "FileNotFoundError"
    THEN [success |-> FALSE, error |-> "aes-bizzy CLI not found", memories |-> <<>>]
  ELSE IF run.raises # "none"
    THEN [success |-> FALSE, error |-> run.raises, memories |-> <<>>]
  ELSE IF run.returncode = 0 THEN
    IF ~run.stdout.valid THEN [success |-> TRUE, memories |-> <<>>]
    ELSE IF ~run.stdout.object
      THEN [success |-> FALSE, error |-> "AttributeError", memories |-> <<>>]
    ELSE [success |-> TRUE, memories |-> get(run.stdout.value, "memories", <<>>)]
  ELSE [success |-> FALSE, error |-> run.stderr, memories |-> <<>>]

\* is_heimdall_ready: one `memory health` call; the three exceptions it names are
\* caught, any other leaves the function
is_heimdall_ready(run) ==
  IF run.raises \in {"TimeoutExpired", "FileNotFoundError"}
    THEN [raised |-> FALSE, value |-> FALSE]
  ELSE IF run.raises # "none" THEN [raised |-> TRUE, value |-> FALSE]
  ELSE IF run.returncode = 0 THEN
    IF ~run.stdout.valid THEN [raised |-> FALSE, value |-> FALSE]
    ELSE IF ~run.stdout.object THEN [raised |-> TRUE, value |-> FALSE]
    ELSE [raised |-> FALSE, value |-> get(run.stdout.value, "operational", FALSE)]
  ELSE [raised |-> FALSE, value |-> FALSE]

\* parse_hook_input that hands on whatever json.loads made of the text
parse_hook_input_unchecked(stdin) ==
  IF stdin.blank THEN JsonObject(<<>>) ELSE stdin.json

\* parse_hook_input: {} for blank input and for input that is not JSON, the
\* parsed value (an object or not) otherwise
parse_hook_input(stdin) ==
  IF stdin.blank THEN JsonObject(<<>>)
  ELSE IF ~stdin.json.valid THEN JsonObject(<<>>)
  ELSE stdin.json

\* `not data` of Python: the empty object is false, the list [1] and an object
\* with a member are true
truthy(data) == IF data.object THEN data.value # <<>> ELSE TRUE

\* how a main() leaves off before its store_memory call: sys.exit(code), an
\* exception, or the call itself
\* (SystemExit with its code, Exception with its text, store with the memory type)
Leaves(kind, detail) == [kind |-> kind, detail |-> detail]

\* post_task_complete.main from parse_hook_input's result to store_memory, with
\* is_task_completion_event and extract_task_info
post_task_complete_main(data) ==
  IF ~truthy(data) THEN Leaves("SystemExit", 0)
  ELSE IF ~data.object THEN Leaves("Exception", "AttributeError")
  ELSE
    LET tool_name == get(data.value, "tool_name", <<>>)
        tool_input == get(data.value, "tool_input", JsonObject(<<>>))
        tool_result == get(data.value, "tool_result", JsonObject(<<>>))
    IN  IF ~(In(<<"s","e","t","_","t","a","s","k","_","s","t","a","t","u","s">>, tool_name) \/ In(<<"t","a","s","k","-","m","a","s","t","e","r">>, tool_name))
          THEN Leaves("SystemExit", 0)
        ELSE IF ~tool_input.object THEN Leaves("Exception", "AttributeError")
        ELSE IF get(tool_input.value, "status", "") # "done" THEN Leaves("SystemExit", 0)
        ELSE IF get(tool_input.value, "id", "") = "" THEN Leaves("SystemExit", 0)
        ELSE IF ~tool_result.object THEN Leaves("Exception", "AttributeError")
        ELSE Leaves("store", "lesson")

\* error_resolved.main from parse_hook_input's result to store_memory, with
\* is_error_resolution_event and extract_error_info; `indicators` is the number
\* of indicator words and fix patterns found in the dumped input and result
error_resolved_main(data, indicators) ==
  IF ~truthy(data) THEN Leaves("SystemExit", 0)
  ELSE IF ~data.object THEN Leaves("Exception", "AttributeError")
  ELSE
    LET tool_name == get(data.value, "tool_name", <<>>)
        tool_input == get(data.value, "tool_input", JsonObject(<<>>))
    IN  IF tool_name \notin {<<"E","d","i","t">>, <<"B","a","s","h">>} THEN Leaves("SystemExit", 0)
        ELSE IF ~(indicators >= 2) THEN Leaves("SystemExit", 0)
        ELSE IF ~tool_input.object THEN Leaves("Exception", "AttributeError")
        ELSE Leaves("store", "error")

\* post_agent_task.main from parse_hook_input's result to store_memory, with
\* extract_agent_info
post_agent_task_main(data) ==
  IF ~truthy(data) THEN Leaves("SystemExit", 0)
  ELSE IF ~data.object THEN Leaves("Exception", "AttributeError")
  ELSE
    LET agent_type == get(data.value, "subagent_type", get(data.value, "agent_type", ""))
    IN  IF agent_type = "" THEN Leaves("SystemExit", 0)
        ELSE Leaves("store", "lesson")

\* prd_parsed.main from parse_hook_input's result to store_memory, with
\* is_prd_parsed_event and extract_prd_info
prd_parsed_main(data) ==
  IF ~truthy(data) THEN Leaves("SystemExit", 0)
  ELSE IF ~data.object THEN Leaves("Exception", "AttributeError")
  ELSE
    LET tool_name == get(data.value, "tool_name", <<>>)
        tool_input == get(data.value, "tool_input", JsonObject(<<>>))
        tool_result == get(data.value, "tool_result", JsonObject(<<>>))
    IN  IF ~(In(<<"p","a","r","s","e","_","p","r","d">>, lower(tool_name)) \/ In(<<"p","a","r","s","e","-","p","r","d">>, lower(tool_name)))
          THEN Leaves("SystemExit", 0)
        ELSE IF ~tool_input.object THEN Leaves("Exception", "AttributeError")
        ELSE IF ~tool_result.object THEN Leaves("Exception", "AttributeError")
        ELSE Leaves("store", "context")

\* session_end.main from parse_hook_input's result to store_memory, with
\* extract_session_summary and load_session_data: the summary of the event,
\* updated with the session data file when that file holds an object
session_end_main(data, session_file) ==
  IF ~data.object THEN Leaves("Exception", "AttributeError")
  ELSE
    LET of_event == [k \in {"tools_used", "files_modified", "tasks_completed"} |->
                       get(data.value, k, <<>>)]
        summary == [k \in DOMAIN of_event |-> get(session_file.data, k, of_event[k])]
    IN  IF /\ summary.files_modified = <<>>
           /\ summary.tasks_completed = <<>>
           /\ Len(summary.tools_used) < 5
          THEN Leaves("SystemExit", 0)
          ELSE Leaves("store", "context")

\* extract_task_ids, given the ids its four patterns find in the commit message
\* (re.findall, pattern after pattern): list(set(task_ids)) hands on the distinct
\* ids in the order in which the set iterates. A set of str has no order of its
\* own, the hash of a str changes from one interpreter run to the next, so every
\* order of the distinct ids is a possible result.
extract_task_ids(matches) ==
  {order \in [1..Cardinality(Range(matches)) -> Range(matches)] :
     Range(order) = Range(matches)}

\* post_commit.main from get_last_commit_info to store_memory: no commit
\* information when git is missing, times out or `git rev-parse HEAD` fails
post_commit_main(git) ==
  IF git.raises \in {"TimeoutExpired", "FileNotFoundError"} THEN Leaves("SystemExit", 0)
  ELSE IF git.raises # "none" THEN Leaves("Exception", git.raises)
  ELSE IF git.returncode # 0 THEN Leaves("SystemExit", 0)
  ELSE Leaves("store", "context")

(***************************************************************************)
(* Specification SpecHook: the host starts one hook process, which runs    *)
(* step by step against the CLI, standard input and the working tree.      *)
(***************************************************************************)
Hooks ==
  {"session_start", "session_end", "post_commit", "post_task_complete",
   "post_agent_task", "prd_parsed", "error_resolved"}

\* what the host writes to standard input: nothing, blanks, text that is not
\* JSON, a list, an empty object, and events; `indicators` is the answer of the
\* error-indicator searches of error_resolved on the event
Stdins ==
  { [blank |-> TRUE, json |-> NotJson, indicators |-> 0],
    [blank |-> FALSE, json |-> NotJson, indicators |-> 0],
    [blank |-> FALSE, json |-> JsonList, indicators |-> 0],
    [blank |-> FALSE, json |-> JsonObject(<<>>), indicators |-> 0],
    \* a tool event no hook stores: Read README.md
    [blank |-> FALSE, indicators |-> 0,
     json |-> JsonObject([tool_name |-> <<"R","e","a","d">>,
                          tool_input |-> JsonObject([file_path |-> "README.md"])])],
    \* task 7 set to done
    [blank |-> FALSE, indicators |-> 0,
     json |-> JsonObject([tool_name |-> <<"m","c","p","_","_","t","a","s","k","-","m","a","s","t","e","r","-","a","i","_","_","s","e","t","_","t","a","s","k","_","s","t","a","t","u","s">>,
                          tool_input |-> JsonObject([id |-> "7", status |-> "done"]),
                          tool_result |-> JsonObject(<<>>)])],
    \* a task set to done, without its id
    [blank |-> FALSE, indicators |-> 0,
     json |-> JsonObject([tool_name |-> <<"m","c","p","_","_","t","a","s","k","-","m","a","s","t","e","r","-","a","i","_","_","s","e","t","_","t","a","s","k","_","s","t","a","t","u","s">>,
                          tool_input |-> JsonObject([status |-> "done"])])],
    \* set_task_status whose tool_input is a list
    [blank |-> FALSE, indicators |-> 0,
     json |-> JsonObject([tool_name |-> <<"m","c","p","_","_","t","a","s","k","-","m","a","s","t","e","r","-","a","i","_","_","s","e","t","_","t","a","s","k","_","s","t","a","t","u","s">>,
                          tool_input |-> JsonList])],
    \* a subagent that stopped
    [blank |-> FALSE, indicators |-> 0,
     json |-> JsonObject([subagent_type |-> "debugger", result |-> "done"])],
    \* a parsed PRD
    [blank |-> FALSE, indicators |-> 0,
     json |-> JsonObject([tool_name |-> <<"m","c","p","_","_","t","a","s","k","-","m","a","s","t","e","r","-","a","i","_","_","p","a","r","s","e","_","p","r","d">>,
                          tool_input |-> JsonObject([input |-> "prd.txt"]),
                          tool_result |-> JsonObject(<<>>)])],
    \* an edit that fixes a TypeError
    [blank |-> FALSE, indicators |-> 3,
     json |-> JsonObject([tool_name |-> <<"E","d","i","t">>,
                          tool_input |-> JsonObject([file_path |-> "app.py"])])],
    \* the end of a session in which a file was modified
    [blank |-> FALSE, indicators |-> 0,
     json |-> JsonObject([files_modified |-> <<"app.py">>])] }

\* log_hook_error: a line on stderr and in .heimdall/logs/hook-errors.jsonl
log_hook_error(h, hook_name, error) ==
  [h EXCEPT !.logged = Append(@, [hook |-> hook_name, error |-> error])]

\* safe_hook_execution that lets the exception through: the interpreter ends
\* with status 1
safe_hook_execution_reraise(h, outcome) ==
  IF outcome.kind = "Exception"
    THEN [h EXCEPT !.pc = "exited", !.exit = 1]
    ELSE [h EXCEPT !.pc = "exited", !.exit = outcome.detail]

\* safe_hook_execution: an Exception that leaves main() is logged and the
\* process exits with 0; sys.exit(code) is no Exception and ends the process
\* with its code
safe_hook_execution(h, outcome) ==
  IF outcome.kind = "Exception"
    THEN [log_hook_error(h, "main", outcome.detail) EXCEPT !.pc = "exited", !.exit = 0]
    ELSE [h EXCEPT !.pc = "exited", !.exit = outcome.detail]

HookInit ==
  /\ hook = <<>> /\ activities = <<>>
  /\ mailbox = <<>> /\ clock = 0 /\ unread = <<>> /\ agent_state = <<>>
  /\ last = <<>> /\ buf = <<>> /\ returned = <<>> /\ route = NoRoute /\ steps = 0

\* the host starts the hook process
HookStart(name, stdin, session_file, git) ==
  /\ hook = <<>>
  /\ hook' = [name |-> name, pc |-> "ready", stdin |-> stdin, stdin_read |-> FALSE,
              session_file |-> session_file, git |-> git,
              calls |-> <<>>, logged |-> <<>>, printed |-> FALSE,
              task_id |-> "None", task_tags |-> <<>>,
              found |-> FALSE, run |-> <<>>, result |-> <<>>, exit |-> "running"]
  /\ UNCHANGED <<mailbox, clock, unread, agent_state, last, buf, returned, route, steps, activities>>

\* main() that goes on to its body whatever is_heimdall_ready() returned
HookReady_unchecked(run) ==
  /\ hook # <<>> /\ hook.pc = "ready"
  /\ LET h == [hook EXCEPT !.calls = Append(@, "health")]
         ready == is_heimdall_ready(run)
     IN  hook' = IF ready.raised
                   THEN safe_hook_execution(h, Leaves("Exception", IF run.raises # "none" THEN run.raises
                                                     ELSE "AttributeError"))
                 ELSE [h EXCEPT !.pc = "main"]
  /\ UNCHANGED <<mailbox, clock, unread, agent_state, last, buf, returned, route, steps, activities>>

\* main(): `if not is_heimdall_ready(): sys.exit(0)`
HookReady(run) ==
  /\ hook # <<>> /\ hook.pc = "ready"
  /\ LET h == [hook EXCEPT !.calls = Append(@, "health")]
         ready == is_heimdall_ready(run)
     IN  hook' = IF ready.raised
                   THEN safe_hook_execution(h, Leaves("Exception", IF run.raises # "none" THEN run.raises
                                                     ELSE "AttributeError"))
                 ELSE IF ~ready.value THEN safe_hook_execution(h, Leaves("SystemExit", 0))
                 ELSE [h EXCEPT !.pc = "main"]
  /\ UNCHANGED <<mailbox, clock, unread, agent_state, last, buf, returned, route, steps, activities>>

\* main() from the readiness check to its first memory call
HookMain ==
  /\ hook # <<>> /\ hook.pc = "main"
  /\ \E task_ids \in IF hook.name = "post_commit" THEN extract_task_ids(hook.git.matches)
                                                  ELSE {<<>>} :
     LET reads == hook.name \notin {"session_start", "post_commit"}
         data == parse_hook_input(hook.stdin)
         outcome ==
           CASE hook.name = "post_task_complete" -> post_task_complete_main(data)
             [] hook.name = "error_resolved" ->
                  error_resolved_main(data, hook.stdin.indicators)
             [] hook.name = "post_agent_task" -> post_agent_task_main(data)
             [] hook.name = "prd_parsed" -> prd_parsed_main(data)
             [] hook.name = "session_end" -> session_end_main(data, hook.session_file)
             [] hook.name = "post_commit" -> post_commit_main(hook.git)
             [] hook.name = "session_start" -> Leaves("query", 3)
         h == [hook EXCEPT !.stdin_read = reads,
                 \* post_commit: `task_id = task_ids[0] if task_ids else None` and
                 \* a task: tag for each of task_ids[:3]
                 !.task_id = IF outcome.kind = "store" /\ Len(task_ids) > 0
                               THEN task_ids[1] ELSE @,
                 !.task_tags = IF outcome.kind = "store"
                                 THEN [i \in 1..(IF Len(task_ids) < 3 THEN Len(task_ids) ELSE 3) |-> task_ids[i]]
                                 ELSE @,
                 \* session_end: clear_session_data() before sys.exit(0)
                 !.session_file = IF hook.name = "session_end" /\ outcome.kind = "SystemExit"
                                    THEN [exists |-> FALSE, data |-> <<>>] ELSE @]
     IN  hook' = IF outcome.kind \in {"SystemExit", "Exception"}
                   THEN safe_hook_execution(h, outcome)
                   ELSE [h EXCEPT !.pc = outcome.kind]
  /\ UNCHANGED <<mailbox, clock, unread, agent_state, last, buf, returned, route, steps, activities>>

\* session_start.main: load_project_context, load_recent_lessons and
\* load_error_resolutions, one query each, then the summary if one found anything
HookQuery(run) ==
  /\ hook # <<>> /\ hook.pc = "query"
  /\ LET result == query_memories(run)
         h == [hook EXCEPT !.calls = Append(@, "search"), !.run = run, !.result = result,
                           !.found = @ \/ result.memories # <<>>]
         searches == Cardinality({i \in 1..Len(h.calls) : h.calls[i] = "search"})
     IN  hook' = IF searches < 3 THEN h
                 ELSE safe_hook_execution([h EXCEPT !.printed = h.found], Leaves("SystemExit", 0))
  /\ UNCHANGED <<mailbox, clock, unread, agent_state, last, buf, returned, route, steps, activities>>

\* main() that calls store_memory again after a failure
HookStore_retrying(run) ==
  /\ hook # <<>> /\ hook.pc = "store"
  /\ LET result == store_memory(run)
         h == [hook EXCEPT !.calls = Append(@, "store"), !.run = run, !.result = result]
     IN  hook' = IF ~result.success THEN log_hook_error(h, hook.name, result.error)
                 ELSE safe_hook_execution(h, Leaves("SystemExit", 0))
  /\ UNCHANGED <<mailbox, clock, unread, agent_state, last, buf, returned, route, steps, activities>>

\* main() that keeps the session data file for a later attempt when the store
\* did not succeed
HookStore_keeping(run) ==
  /\ hook # <<>> /\ hook.pc = "store"
  /\ LET result == store_memory(run)
         h == [hook EXCEPT !.calls = Append(@, "store"), !.run = run, !.result = result,
                 !.session_file = IF hook.name = "session_end" /\ result.success
                                    THEN [exists |-> FALSE, data |-> <<>>] ELSE @]
     IN  hook' = safe_hook_execution(
                   IF ~result.success THEN log_hook_error(h, hook.name, result.error)
                                      ELSE h,
                   Leaves("SystemExit", 0))
  /\ UNCHANGED <<mailbox, clock, unread, agent_state, last, buf, returned, route, steps, activities>>

\* main() from store_memory to the end: the call, the error log when it did not
\* succeed, the clean-up of session_end, sys.exit(0)
HookStore(run) ==
  /\ hook # <<>> /\ hook.pc = "store"
  /\ LET result == store_memory(run)
         h == [hook EXCEPT !.calls = Append(@, "store"), !.run = run, !.result = result,
                 !.session_file = IF hook.name = "session_end"
                                    THEN [exists |-> FALSE, data |-> <<>>] ELSE @]
     IN  hook' = safe_hook_execution(
                   IF ~result.success THEN log_hook_error(h, hook.name, result.error)
                                      ELSE h,
                   Leaves("SystemExit", 0))
  /\ UNCHANGED <<mailbox, clock, unread, agent_state, last, buf, returned, route, steps, activities>>

HookNext ==
  \/ \E name \in Hooks, stdin \in Stdins,
        \* .heimdall/current-session.json: absent, or present with the object it
        \* holds (none when it cannot be parsed)
        session_file \in { [exists |-> FALSE, data |-> <<>>],
                           [exists |-> TRUE, data |-> <<>>],
                           [exists |-> TRUE, data |-> [tasks_completed |-> <<"7">>]] },
        \* what the first git call of get_last_commit_info does, and the ids
        \* that the patterns of extract_task_ids find in the commit message:
        \* none in "Update README", 7 twice in "Fix login (task 7)", and 7, 12,
        \* 3 and 7 again in "Fix login (task 7), closes #12 and TM-3"
        git \in { [raises |-> "FileNotFoundError", returncode |-> 0, matches |-> <<>>],
                  [raises |-> "TimeoutExpired", returncode |-> 0, matches |-> <<>>],
                  [raises |-> "PermissionError", returncode |-> 0, matches |-> <<>>],
                  [raises |-> "none", returncode |-> 0, matches |-> <<>>],
                  [raises |-> "none", returncode |-> 0, matches |-> <<"7", "7">>],
                  [raises |-> "none", returncode |-> 0, matches |-> <<"7", "12", "3", "7">>],
                  [raises |-> "none", returncode |-> 128, matches |-> <<>>] } :
       HookStart(name, stdin, session_file, git)
  \/ \E run \in RunResults : HookReady(run)
  \/ HookMain
  \/ \E run \in RunResults : HookQuery(run)
  \/ \E run \in RunResults : HookStore(run)

SpecHook == HookInit /\ [][HookNext]_vars

(***************************************************************************)
(* Properties of the hook process.                                         *)
(***************************************************************************)
Running == hook # <<>>

Exited == Running /\ hook.pc = "exited"

\* how often the process has invoked a `memory` subcommand of the CLI
Calls(subcommand) == Cardinality({i \in 1..Len(hook.calls) : hook.calls[i] = subcommand})

\* C16: every Heimdall hook ends with exit status 0 on every path (memory not
\* ready, empty or invalid stdin, event of another kind, failed store, exception
\* in the body), and no path stops before the process has exited.
C16_HooksExitZero ==
  Running =>
    /\ hook.pc = "exited" => hook.exit = 0
    /\ hook.pc # "exited" => hook.exit = "running" /\ ENABLED HookNext

\* C16 witness: a hook whose body raised (an event that is a list) has logged the
\* exception and exited with 0
C16_Witness ==
  /\ Exited /\ hook.exit = 0
  /\ hook.name = "post_task_complete"
  /\ hook.stdin.json = JsonList
  /\ hook.calls = <<"health">>
  /\ hook.logged = <<[hook |-> "main", error |-> "AttributeError"]>>

\* C17: store_memory and query_memories return success: true exactly when the
\* CLI ran, exited with 0 and printed parsable JSON; every other outcome is a
\* returned failure with an error text (and no memories, for a query), which a
\* storing hook logs.
C17_FailureIsReported ==
  Running /\ hook.result # <<>> =>
    /\ hook.result.success <=>
         /\ hook.run.raises = "none"
         /\ hook.run.returncode = 0
         /\ hook.run.stdout.valid
    /\ ~hook.result.success =>
         /\ hook.result.error # ""
         /\ Calls("search") > 0 => hook.result.memories = <<>>
         /\ Calls("store") > 0 =>
              hook.logged = <<[hook |-> hook.name, error |-> hook.result.error]>>

\* C18: one hook process invokes `memory store` at most once; when the call
\* fails the hook logs the error once and has exited, with no second attempt.
C18_StoreAtMostOnce ==
  Running =>
    /\ Calls("store") <= 1
    /\ Calls("store") = 1 =>
         /\ hook.pc = "exited"
         /\ hook.logged = IF hook.result.success THEN <<>>
                          ELSE <<[hook |-> hook.name, error |-> hook.result.error]>>

\* C18 witness: post_commit's store timed out; the hook logged it and exited
C18_Witness ==
  /\ Exited
  /\ hook.name = "post_commit"
  /\ hook.calls = <<"health", "store">>
  /\ hook.run.raises = "TimeoutExpired"
  /\ hook.logged = <<[hook |-> "post_commit", error |-> "Timeout storing memory"]>>

(***************************************************************************)
(* Specification SpecNoInput: events that carry nothing to act on.  The    *)
(* host runs a Heimdall hook and then hands file events without a path to  *)
(* the agent runtimes.                                                     *)
(***************************************************************************)
MaxNoInputSteps == 1

\* Write/Edit/MultiEdit events with neither file_path nor path, or with an empty
\* file_path
PathlessEvents ==
  { Event(tool_name, tool_input) :
      tool_name \in FileTools,
      tool_input \in { [content |-> Contents.Secret],
                       [file_path |-> <<>>, new_string |-> Contents.Requests] } }

NoInputInit ==
  /\ mailbox = [a \in Agents |-> <<>>]
  /\ clock = 0
  /\ agent_state \in InitialStates
  /\ last = [op |-> "none"]
  /\ steps = MaxNoInputSteps
  /\ unread = <<>> /\ buf = <<>> /\ returned = <<>> /\ route = NoRoute
  /\ hook = <<>> /\ activities = <<>>

NoInputNext ==
  \/ \E name \in Hooks, stdin \in Stdins :
       /\ steps = MaxNoInputSteps
       /\ HookStart(name, stdin, [exists |-> FALSE, data |-> <<>>],
                    [raises |-> "none", returncode |-> 0, matches |-> <<>>])
  \/ \E run \in {r \in RunResults : r.raises \in {"none", "TimeoutExpired"} /\ r.stderr = ""} :
       \/ HookReady(run)
       \/ HookQuery(run)
       \/ HookStore(run)
  \/ HookMain
  \/ \E agent \in Runtimes, event \in PathlessEvents :
       /\ IF hook = <<>> THEN TRUE ELSE hook.pc = "exited"
       /\ Invoke(agent, event)

SpecNoInput == NoInputInit /\ [][NoInputNext]_vars

\* C19: blank or non-JSON stdin is parsed to {} and post_task_complete,
\* post_agent_task, prd_parsed and error_resolved then exit with 0 without a
\* `memory store` call and without logging anything; a Write/Edit/MultiEdit
\* event with neither file_path nor path makes every agent return
\* {message: "", block: false}, and the agent sends no envelope for it.
C19_MalformedInputIsNoOp ==
  /\ /\ Running
     /\ hook.name \in {"post_task_complete", "post_agent_task", "prd_parsed", "error_resolved"}
     /\ hook.stdin.blank \/ ~hook.stdin.json.valid
     => /\ parse_hook_input(hook.stdin) = JsonObject(<<>>)
        /\ Calls("store") = 0
        /\ hook.pc \in {"ready", "main", "exited"}
        /\ hook.stdin_read =>
             /\ hook.pc = "exited" /\ hook.exit = 0
             /\ hook.logged = <<>> /\ hook.calls = <<"health">>
  /\ /\ Invoked /\ ~last.raised
     /\ last.event.tool_name \in FileTools
     /\ last_path = <<>>
     => /\ last.decision = NoOp
        /\ last.drained = <<>> =>
             /\ last.sent = <<>>
             /\ mailbox = last.before.mailbox

\* C19 witness: error_resolved read blank stdin and exited without a store, and
\* backend-developer then answered a Write without a path, whose content holds a
\* hardcoded secret, with the no-op decision
C19_Witness ==
  /\ Exited
  /\ hook.name = "error_resolved"
  /\ hook.stdin.blank /\ hook.stdin_read
  /\ hook.calls = <<"health">>
  /\ Invoked /\ last.agent = BE
  /\ last.event = Event("Write", [content |-> Contents.Secret])
  /\ last.decision = NoOp /\ last.sent = <<>>

(***************************************************************************)
(* Properties of the agent runtimes, continued                             *)
(***************************************************************************)
\* C21: an envelope stays in its mailbox, with its content and its place among
\* the envelopes of that mailbox, until the owner drains: a step that is not an
\* invocation of a draining agent a (a peer's enqueue to any mailbox, an
\* invocation of another agent, or of project-manager, which never drains)
\* leaves the old queue of a as a prefix of the new one, and what it adds to
\* that queue is addressed to a.
C21_OtherMailboxesOnlyGrow ==
  [][\A a \in Agents :
       IF last'.op = "invoke" /\ last'.agent = a /\ a # PM THEN TRUE
       ELSE /\ Len(mailbox'[a]) >= Len(mailbox[a])
            /\ SubSeq(mailbox'[a], 1, Len(mailbox[a])) = mailbox[a]
            /\ \A k \in (Len(mailbox[a]) + 1)..Len(mailbox'[a]) : mailbox'[a][k].to = a]_vars

\* an invocation of another agent has appended to a mailbox that already held
\* an envelope, and the envelope is still first
C21_Witness ==
  /\ Invoked
  /\ \E a \in Agents \ {last.agent} :
       /\ last.before.mailbox[a] # <<>>
       /\ Len(mailbox[a]) > Len(last.before.mailbox[a])
       /\ mailbox[a][1] = last.before.mailbox[a][1]

\* C22: every agent with a runtime that determine_relevant_agents names for a
\* path accepts that path by the domain predicate of its own
\* handle_file_change_from_team (is_frontend_file, is_backend_file,
\* is_testable_code, is_relevant_file), so that the notification is answered.
C22_RoutedAgentsAccept ==
  route.phase = "answered" =>
    \A a \in Range(route.relevant) \cap {FE, UI, BE, TE, DE} :
      CASE a = FE -> is_frontend_file(route.file_path)
        [] a = BE -> is_backend_file(route.file_path)
        [] a = TE -> is_testable_code(route.file_path)
        [] OTHER  -> is_relevant_file(a, route.file_path)

(***************************************************************************)
(* Specification SpecLog: project-manager on a run of events, most of      *)
(* which it only logs.  The run starts with an empty activity log or with  *)
(* one that earlier events have filled up to the limit.                    *)
(***************************************************************************)
MaxLogSteps == 4

LogInit ==
  /\ \E n \in {0, MaxActivities - 1, MaxActivities} :
       /\ activities = [i \in 1..n |->
                          [timestamp |-> 0,
                           tool_name |-> IF i % 2 = 1 THEN "Read" ELSE "Bash",
                           activity_type |-> "development", coordinator |-> PM]]
       /\ agent_state = [a \in Runtimes |->
                           IF a = PM /\ n > 0 THEN [project_activities |-> activities]
                           ELSE <<>>]
  /\ mailbox = [a \in Agents |-> <<>>]
  /\ clock = 0
  /\ last = [op |-> "none"]
  /\ steps = MaxLogSteps
  /\ unread = <<>> /\ buf = <<>> /\ returned = <<>> /\ route = NoRoute /\ hook = <<>>

\* a command, a Read or a pre_commit event: logged, except the git command,
\* which is broadcast instead
LogNext ==
  \E event \in {e \in Events : e.tool_name \in {"Bash", "Read", "pre_commit"}} :
    Invoke(PM, event)

SpecLog == LogInit /\ [][LogNext]_vars

\* C23: project_activities never holds more than 100 entries; it is the whole
\* history of logged activities while that has at most 100 entries and the
\* last 100 of them, in logging order, once more have been logged.
C23_ActivitiesAreTheLastHundred ==
  \A log \in {get(agent_state[PM], "project_activities", <<>>)} :
    /\ Len(log) <= MaxActivities
    /\ Len(activities) <= MaxActivities => log = activities
    /\ Len(activities) > MaxActivities =>
         log = SubSeq(activities, Len(activities) - MaxActivities + 1, Len(activities))

\* the 102nd activity has just been logged by handle_general_coordination
C23_Witness ==
  /\ Invoked /\ last.agent = PM /\ last.event.tool_name = "pre_commit"
  /\ Len(activities) = MaxActivities + 2
  /\ Len(agent_state[PM].project_activities) = MaxActivities
  /\ agent_state[PM].project_activities[MaxActivities].tool_name = "pre_commit"

(***************************************************************************)
(* Specification SpecQuiet: the hook events and peer writes of Spec, and   *)
(* after the last of them invocations on an event that carries nothing to  *)
(* act on, so that the agents only take what is in their mailboxes (an     *)
(* agent that finds its mailbox empty does nothing on such an event).      *)
(***************************************************************************)
QuietNext ==
  \/ Next
  \/ \E agent \in Runtimes :
       /\ steps = 0
       /\ mailbox[agent] # <<>>
       /\ Run(agent, Event("Write", [content |-> Contents.Plain]))
       /\ UNCHANGED steps

SpecQuiet == Init /\ [][QuietNext]_vars

\* no dispatch table has an entry for the type (project-manager has no table)
Unhandled(type) == \A a \in Runtimes \ {PM} : handler_of(a, type) = "none"

\* C24: what the analyses and the message handlers of the agents send is of a
\* type no dispatch table handles; an invocation on an event without analysis
\* sends at most one envelope per handled envelope; and only finitely many
\* envelopes are ever sent: from some state on no step sends one.
C24_CascadesTerminate ==
  /\ [](Invoked /\ last.agent # PM =>
          /\ \A k \in 1..Len(last.sent) : Unhandled(last.sent[k].type)
          /\ (last.event.tool_name \notin FileTools \/ last_path = <<>>) =>
               Len(last.sent) <= Len(last.handled))
  /\ <>[][clock' = clock]_vars

\* after the events, an agent has answered a drained envelope, and the agent
\* the answer went to has drained it without a handler and without sending
C24_Witness ==
  /\ Invoked /\ steps = 0
  /\ last.drained # <<>> /\ last.handled = <<>> /\ last.sent = <<>>
  /\ \E k \in 1..Len(last.drained) :
       /\ "type" \in DOMAIN last.drained[k]
       /\ last.drained[k].type \in {"query_review_response", "api_change_response"}

\* C25: a returned decision blocks only if the event is a Write, Edit or
\* MultiEdit with a path in the domain of the agent that decides (a test file
\* for tester), whatever the agent has drained; project-manager never blocks.
C25_BlockOnlyOnOwnFileEvent ==
  Invoked /\ last.decision.block =>
    /\ last.agent # PM
    /\ last.event.tool_name \in FileTools
    /\ last_path # <<>>
    /\ CASE last.agent = BE -> is_backend_file(last_path)
         [] last.agent = FE -> is_frontend_file(last_path)
         [] last.agent = TE -> is_test_file(last_path)
         [] OTHER           -> is_relevant_file(last.agent, last_path)

\* an agent that drained an envelope and answered it blocks the file event
C25_Witness ==
  /\ Invoked /\ last.decision.block
  /\ last.handled # <<>> /\ last.sent # <<>>
  /\ last.event.tool_name \in FileTools

(***************************************************************************)
(* Specification SpecBlock: file events whose content has a critical       *)
(* finding together with a database or a style finding, and the same       *)
(* findings without the critical one.                                      *)
(***************************************************************************)
BlockNext ==
  \E agent \in Runtimes,
     event \in { Event("Write", [file_path |-> <<"a","p","i","/","u","s","e","r","s",".","p","y">>, content |-> Contents.SecretLoop]),
                 Event("Edit", [file_path |-> <<"a","p","i","/","u","s","e","r","s",".","p","y">>, new_string |-> Contents.Requests]),
                 Event("Edit", [file_path |-> <<"s","r","c","/","A","p","p",".","j","s","x">>, new_string |-> Contents.StyledMap]),
                 Event("Write", [file_path |-> <<"s","r","c","/","A","p","p",".","j","s","x">>, content |-> Contents.Styled]) } :
    Invoke(agent, event)

SpecBlock == Init /\ [][BlockNext]_vars

\* C26: what the event analysis of a blocking decision sends (the envelopes
\* after the answers to the drained ones) goes to project-manager, or to
\* security-engineer when backend-developer has a critical finding tagged
\* security; none of it is a database_optimization_review or a
\* styling_coordination, whatever else the findings hold.
C26_BlockingWritesToCoordinatorAndSecurityOnly ==
  Invoked /\ last.decision.block =>
    \A n \in {Len(process_team_messages(NewWorld(last.before), last.agent).sent)} :
      \A k \in (n + 1)..Len(last.sent) :
        /\ last.sent[k].to \in {PM, SEC}
        /\ last.sent[k].to = SEC =>
             /\ last.agent = BE
             /\ Tagged(BySeverity(last_findings, "critical"), <<"s","e","c","u","r","i","t","y">>) # <<>>
        /\ last.sent[k].type \notin {"database_optimization_review", "styling_coordination"}

\* backend-developer answers a drained notification and then blocks a file with
\* a critical and a database finding
C26_Witness ==
  /\ Invoked /\ last.decision.block /\ last.agent = BE
  /\ last.handled # <<>>
  /\ Tagged(last_findings, <<"d","a","t","a","b","a","s","e">>) # <<>>
  /\ Len(last.sent) = 3

\* the request types with the type of the answer, the payload field that names
\* the addressee and the addressee when the payload has no such field
RequestTypes ==
  [ review_request        |-> [reply |-> "review_response", key |-> "from", default |-> PM],
    test_request          |-> [reply |-> "test_recommendations_response", key |-> "from", default |-> PM],
    coverage_analysis     |-> [reply |-> "coverage_analysis_response", key |-> "from", default |-> PM],
    api_change_request    |-> [reply |-> "api_change_response", key |-> "from", default |-> FE],
    database_query_review |-> [reply |-> "query_review_response", key |-> "from", default |-> DE],
    meeting_invitation    |-> [reply |-> "meeting_accepted", key |-> "organizer", default |-> PM] ]

\* C27: the answers to the requests an invocation has drained go to the agent
\* the payload names in 'from' ('organizer' for a meeting invitation) and, when
\* the payload has no such field, to project-manager (frontend-developer for
\* api_change_request, data-engineer for database_query_review), whoever the
\* envelope says has sent the request; an invitation may stay unanswered.
C27_RepliesGoToPayloadSender ==
  Invoked /\ ~last.raised /\ last.agent # PM =>
    \A t \in DOMAIN RequestTypes :
      LET requests == {k \in 1..Len(last.drained) :
                         last.drained[k].type = t /\ handler_of(last.agent, t) # "none"}
          expected == {get(last.drained[k].data, RequestTypes[t].key, RequestTypes[t].default) :
                         k \in requests}
          answered == {last.sent[k].to :
                         k \in {j \in 1..Len(last.sent) : last.sent[j].type = RequestTypes[t].reply}}
      IN  IF t = "meeting_invitation" THEN answered \subseteq expected
          ELSE answered = expected

\* devops-engineer's database_query_review, whose payload names no sender, has
\* been answered to data-engineer
C27_Witness ==
  /\ Invoked /\ ~last.raised /\ last.agent = BE
  /\ \E k \in 1..Len(last.drained) :
       /\ last.drained[k].type = "database_query_review"
       /\ last.drained[k].from = OPS
       /\ "from" \notin DOMAIN last.drained[k].data
  /\ \E k \in 1..Len(last.sent) :
       last.sent[k].type = "query_review_response" /\ last.sent[k].to = DE

\* C28: in every Heimdall hook the readiness check is the first external action,
\* and unless is_heimdall_ready returned true the hook makes no `memory store` or
\* `memory search` call, reads no event from standard input, prints nothing to
\* standard output and leaves the session data file as it was: the process has
\* exited right after the `memory health` call, and an exited process does nothing.
C28_NothingBeforeReady ==
  /\ [](Running =>
          /\ hook.calls # <<>> => hook.calls[1] = "health"
          /\ hook.pc = "ready" => hook.calls = <<>> /\ ~hook.stdin_read /\ ~hook.printed)
  /\ [][/\ \A run \in RunResults :
             /\ HookReady(run)
             /\ ~(~is_heimdall_ready(run).raised /\ is_heimdall_ready(run).value)
             => /\ hook'.pc = "exited"
                /\ hook'.calls = <<"health">>
                /\ ~hook'.stdin_read /\ ~hook'.printed
                /\ hook'.session_file = hook.session_file
        /\ Exited => hook' = hook]_vars

\* C28 witness: session_end found the memory not ready: it has exited after the
\* health call alone, the event unread and the session data file still there
C28_Witness ==
  /\ Exited
  /\ hook.name = "session_end"
  /\ hook.calls = <<"health">>
  /\ hook.logged = <<>>
  /\ ~hook.stdin_read /\ ~hook.printed
  /\ hook.session_file = [exists |-> TRUE, data |-> [tasks_completed |-> <<"7">>]]

C30_PrimaryTaskIsDeterministic ==
  Running /\ hook.name = "post_commit" /\ Calls("store") = 1 =>
    \A task_ids \in extract_task_ids(hook.git.matches) :
      /\ hook.task_id = IF Len(task_ids) > 0 THEN task_ids[1] ELSE "None"
      /\ hook.task_tags = [i \in 1..(IF Len(task_ids) < 3 THEN Len(task_ids) ELSE 3) |-> task_ids[i]]

====
